---- MODULE Spec2Model ----
(***************************************************************************)
(* AliceVision depth/similarity map tiles: persistence, merge and the      *)
(* normal map kernel.                                                      *)
(*                                                                         *)
(*   mvsUtils/depthSimMapIO.cpp        write / read / merge of tile maps   *)
(*   depthMap/cuda/normalMapping/deviceNormalMapKernels.cuh                *)
(*                                     computeNormalMap_kernel             *)
(*                                                                         *)
(* Pixel values and weights are exact rationals <<n, d>> (d > 0, lowest    *)
(* terms): float rounding is not modelled, division by zero is (IEEE       *)
(* +inf, -inf and NaN go through clamp as the comparisons of std::min and  *)
(* std::max decide).                                                       *)
(***************************************************************************)
EXTENDS Integers, Sequences, FiniteSets, TLC

VARIABLES
    cfg,        \* the camera and the call parameters: width, height, scale, step, tileParams, tiles, scene
    acc,        \* merge: the output map being accumulated (out_map of readMapFromTiles)
    added,      \* merge: the tile ROIs accumulated so far
    steps,      \* merge: what each iteration of the tile loop did (ROI used, file read, tile added)
    dirExists,  \* file system: the depth/sim map directory exists
    dir,        \* file system: path -> file (metadata, image, readable pixels)
    last,       \* the last depthSimMapIO call: its name, arguments, result, inner calls
    kin,        \* kernel launch: inputs (width, height, wsh, depth map, camera, memory outside the buffer)
    ran,        \* kernel launch: the threads that have run
    nmap,       \* kernel launch: the normal map buffer
    s3d,        \* kernel launch: per pixel, the window samples given to s3d.update
    pca,        \* kernel launch: per pixel, what s3d.computePlaneByPCA gave
    fault,      \* kernel launch: a thread made an illegal memory access
    host,       \* host function: its name, statements, position, launches not yet checked
    stream,     \* cuda stream: the operations enqueued, in order
    dev,        \* device: operations executed, error state, the maps of the optimisation
    vol,        \* similarity volumes: the costs of each neighbour, best and second best, neighbours done
    band,       \* weightTileBorder: the call parameters, the tile map, the position of its loops
    call,       \* getViewIntrinsic: its arguments, its position, its local variables
    split       \* splitDualFisheye: the source image, the preset, the crops made

mergeVars == <<acc, added, steps>>
fsVars == <<dirExists, dir, last>>
kernelVars == <<kin, ran, nmap, s3d, pca, fault>>
hostVars == <<host, stream, dev>>
sgmVars == <<vol>>
borderVars == <<band>>
intrinsicVars == <<call>>
splitVars == <<split>>
vars == <<cfg, acc, added, steps, dirExists, dir, last, kin, ran, nmap, s3d, pca, fault, host, stream, dev, vol, band, call, split>>

----------------------------------------------------------------------------
(* Bounds of the model                                                     *)

MaxPadding == 5
MaxScaleStep == 2
MaxDepth == 4

\* widths of the band between the two corner bands of a tile side (tileWidth - 2 * tilePadding)
Spans == {1, 4, 5}
\* tile grids (columns, rows)
Layouts == {<<1, 1>>, <<2, 1>>, <<1, 2>>, <<2, 2>>, <<3, 1>>}
\* pixels by which the image is shorter than the whole tile grid (the last tile is clipped)
Clips == {0, 1}

----------------------------------------------------------------------------
(* Exact arithmetic                                                        *)

Abs(i) == IF i < 0 THEN -i ELSE i
Min(i, j) == IF i < j THEN i ELSE j
Max(i, j) == IF i < j THEN j ELSE i

RECURSIVE GCD(_, _)
GCD(i, j) == IF j = 0 THEN i ELSE GCD(j, i % j)

Rat(n, d) ==
    IF n = 0 THEN <<0, 1>>
    ELSE LET g == GCD(Abs(n), Abs(d))
             s == IF d < 0 THEN -1 ELSE 1
         IN  <<s * (n \div g), Abs(d) \div g>>

Val(n) == <<n, 1>>
RAdd(p, q) == IF p[2] = 1 /\ q[2] = 1 THEN <<p[1] + q[1], 1>>
              ELSE Rat(p[1] * q[2] + q[1] * p[2], p[2] * q[2])
RMul(p, q) == IF p[2] = 1 /\ q[2] = 1 THEN <<p[1] * q[1], 1>>
              ELSE Rat(p[1] * q[1], p[2] * q[2])
RLeq(p, q) == p[1] * q[2] <= q[1] * p[2]
RLess(p, q) == p[1] * q[2] < q[1] * p[2]

\* divideRoundUp(x, y)
divideRoundUp(x, y) == (x + y - 1) \div y

----------------------------------------------------------------------------
(* ROI (mvsData/ROI.hpp)                                                   *)

ROI(xb, xe, yb, ye) == [xb |-> xb, xe |-> xe, yb |-> yb, ye |-> ye]
roiWidth(roi) == roi.xe - roi.xb
roiHeight(roi) == roi.ye - roi.yb
roiIsEmpty(roi) == roi.xb >= roi.xe \/ roi.yb >= roi.ye

\* downscaleROI: floor(begin / downscale) .. ceil(end / downscale)
downscaleROI(roi, downscale) ==
    ROI(roi.xb \div downscale, divideRoundUp(roi.xe, downscale),
        roi.yb \div downscale, divideRoundUp(roi.ye, downscale))

\* intersect(a, b)
intersect(a, b) ==
    ROI(Max(a.xb, b.xb), Min(a.xe, b.xe), Max(a.yb, b.yb), Min(a.ye, b.ye))

----------------------------------------------------------------------------
(* Images (image::Image<float>): width, height, px[<<x, y>>]               *)

Pixels(w, h) == (0 .. w - 1) \X (0 .. h - 1)
Image(w, h, f(_, _)) == [w |-> w, h |-> h, px |-> [p \in Pixels(w, h) |-> f(p[1], p[2])]]
ZeroValue(x, y) == Val(0)
\* out_map.resize(width, height, true, 0.f)
ZeroImage(w, h) == Image(w, h, ZeroValue)
EmptyImage == [w |-> 0, h |-> 0, px |-> <<>>]

----------------------------------------------------------------------------
(* weightTileBorder                                                        *)

\* clamp(num / den, 0.0, 1.0) on doubles, clamp(v, lo, hi) = std::max(lo, std::min(v, hi)):
\* x / 0 is +inf (clamped to 1) or -inf (clamped to 0), 0 / 0 is NaN and every
\* comparison with it is false, which leaves lo.
clampDiv(num, den) ==
    IF den = 0 THEN (IF num > 0 THEN Val(1) ELSE Val(0))
    ELSE LET q == Rat(num, den)
         IN  IF q[1] < 0 THEN Val(0) ELSE IF q[1] > q[2] THEN Val(1) ELSE q

margin == 2

\* the four interpolation factors of pixel (x, y) in the border whose corner is lu
r_x(b, x) == clampDiv((b.lux + b.borderWidth - margin) - x, b.borderWidth - 2 * margin)
r_y(b, y) == clampDiv((b.luy + b.borderHeight - margin) - y, b.borderHeight - 2 * margin)
l_xNoMargin(b, x) == clampDiv(x - b.lux, b.borderWidth)
l_x(b, x) == clampDiv(x - (b.lux + margin), b.borderWidth - 2 * margin)
l_y(b, y) == clampDiv(y - (b.luy + margin), b.borderHeight - 2 * margin)

\* weight = r_y * (r_x * a + l_x * b) + l_y * (r_x * d + l_x * c)
borderWeight(b, x, y) ==
    RAdd(RMul(r_y(b, y), RAdd(RMul(r_x(b, x), Val(b.a)), RMul(l_x(b, x), Val(b.b)))),
         RMul(l_y(b, y), RAdd(RMul(r_x(b, x), Val(b.d)), RMul(l_x(b, x), Val(b.c)))))

\* the pixels the two loops of weightTileBorder visit in a tile image of w x h
inBorderClosed(b, w, h, x, y) ==
    /\ b.lux <= x /\ x <= Min(b.lux + b.borderWidth, w)
    /\ b.luy <= y /\ y <= Min(b.luy + b.borderHeight, h)
inBorder(b, w, h, x, y) ==
    /\ b.lux <= x /\ x < Min(b.lux + b.borderWidth, w)
    /\ b.luy <= y /\ y < Min(b.luy + b.borderHeight, h)

Border(a, b, c, d, borderWidth, borderHeight, lux, luy) ==
    [a |-> a, b |-> b, c |-> c, d |-> d,
     borderWidth |-> borderWidth, borderHeight |-> borderHeight, lux |-> lux, luy |-> luy]

----------------------------------------------------------------------------
(* addTileMapWeighted                                                      *)

B2I(v) == IF v THEN 1 ELSE 0

\* the weightTileBorder calls of addTileMapWeighted, in the order of the code
borderCalls(tileWidth, tileHeight, tilePadding, firstColumn, lastColumn, firstRow, lastRow) ==
    (IF ~firstColumn \/ ~firstRow
     THEN <<Border(0, B2I(firstRow), 1, B2I(firstColumn), tilePadding, tilePadding, 0, 0)>>
     ELSE <<>>)
    \o (IF ~firstColumn \/ ~lastRow
        THEN <<Border(B2I(firstColumn), 1, B2I(lastRow), 0, tilePadding, tilePadding,
                      0, tileHeight - tilePadding)>>
        ELSE <<>>)
    \o (IF ~lastColumn \/ ~firstRow
        THEN <<Border(B2I(firstRow), 0, B2I(lastColumn), 1, tilePadding, tilePadding,
                      tileWidth - tilePadding, 0)>>
        ELSE <<>>)
    \o (IF ~lastColumn \/ ~lastRow
        THEN <<Border(1, B2I(lastColumn), 0, B2I(lastRow), tilePadding, tilePadding,
                      tileWidth - tilePadding, tileHeight - tilePadding)>>
        ELSE <<>>)
    \o (IF ~firstRow
        THEN <<Border(0, 0, 1, 1, tileWidth - 2 * tilePadding, tilePadding, tilePadding, 0)>>
        ELSE <<>>)
    \o (IF ~lastRow
        THEN <<Border(1, 1, 0, 0, tileWidth - 2 * tilePadding, tilePadding,
                      tilePadding, tileHeight - tilePadding)>>
        ELSE <<>>)
    \o (IF ~firstColumn
        THEN <<Border(0, 1, 1, 0, tilePadding, tileHeight - 2 * tilePadding, 0, tilePadding)>>
        ELSE <<>>)
    \o (IF ~lastColumn
        THEN <<Border(1, 0, 0, 1, tilePadding, tileHeight - 2 * tilePadding,
                      tileWidth - tilePadding, tilePadding)>>
        ELSE <<>>)

\* in_tileMap(y, x) *= weight, for every call whose loops visit (x, y)
RECURSIVE weighted(_, _, _, _, _, _, _)
weighted(calls, i, w, h, x, y, v) ==
    IF i > Len(calls) THEN v
    ELSE weighted(calls, i + 1, w, h, x, y,
                  IF inBorder(calls[i], w, h, x, y)
                  THEN RMul(v, borderWeight(calls[i], x, y))
                  ELSE v)

\* the tile position and border sizes addTileMapWeighted derives from its arguments
tileGeometryDownscaledEdges(width, height, tileParams, roi, downscale) ==
    LET downscaledRoi == downscaleROI(roi, downscale)
    IN  [downscaledRoi |-> downscaledRoi,
         tileWidth |-> roiWidth(downscaledRoi),
         tileHeight |-> roiHeight(downscaledRoi),
         tilePadding |-> tileParams.padding \div downscale,
         firstColumn |-> (downscaledRoi.xb = 0),
         lastColumn |-> (downscaledRoi.xe = width),
         firstRow |-> (downscaledRoi.yb = 0),
         lastRow |-> (downscaledRoi.ye = height)]
tileGeometry(width, height, tileParams, roi, downscale) ==
    LET downscaledRoi == downscaleROI(roi, downscale)
    IN  [downscaledRoi |-> downscaledRoi,
         tileWidth |-> roiWidth(downscaledRoi),
         tileHeight |-> roiHeight(downscaledRoi),
         tilePadding |-> tileParams.padding \div downscale,
         firstColumn |-> (roi.xb = 0),
         lastColumn |-> (roi.xe = width),
         firstRow |-> (roi.yb = 0),
         lastRow |-> (roi.ye = height)]

tileBorderCalls(g) ==
    borderCalls(g.tileWidth, g.tileHeight, g.tilePadding,
                g.firstColumn, g.lastColumn, g.firstRow, g.lastRow)

\* addTileMapWeighted(rc, mp, tileParams, roi, downscale, in_tileMap, inout_map): the new inout_map
addTileMapUnweighted(width, height, tileParams, roi, downscale, in_tileMap, inout_map) ==
    LET g == tileGeometry(width, height, tileParams, roi, downscale)
        d == g.downscaledRoi
    IN  [inout_map EXCEPT !.px =
            [p \in DOMAIN inout_map.px |->
                IF d.xb <= p[1] /\ p[1] < d.xe /\ d.yb <= p[2] /\ p[2] < d.ye
                THEN RAdd(inout_map.px[p], in_tileMap.px[<<p[1] - d.xb, p[2] - d.yb>>])
                ELSE inout_map.px[p]]]
addTileMapWeighted(width, height, tileParams, roi, downscale, in_tileMap, inout_map) ==
    LET g == tileGeometry(width, height, tileParams, roi, downscale)
        d == g.downscaledRoi
        calls == tileBorderCalls(g)
    IN  [inout_map EXCEPT !.px =
            [p \in DOMAIN inout_map.px |->
                IF d.xb <= p[1] /\ p[1] < d.xe /\ d.yb <= p[2] /\ p[2] < d.ye
                THEN LET tx == p[1] - d.xb
                         ty == p[2] - d.yb
                     IN  RAdd(inout_map.px[p],
                              weighted(calls, 1, in_tileMap.w, in_tileMap.h, tx, ty,
                                       in_tileMap.px[<<tx, ty>>]))
                ELSE inout_map.px[p]]]

----------------------------------------------------------------------------
(* The camera, the call parameters and the tile grid                       *)

TileParams(bufferWidth, bufferHeight, padding) ==
    [bufferWidth |-> bufferWidth, bufferHeight |-> bufferHeight, padding |-> padding]

\* scaleStep = std::max(scale, 1) * step
scaleStepOf(scale, step) == Max(scale, 1) * step
scaleStep == scaleStepOf(cfg.scale, cfg.step)

\* image dimensions at scale / stepXY
imageWidthRoundedDown == cfg.width \div scaleStep
imageWidth == divideRoundUp(cfg.width, scaleStep)
imageHeight == divideRoundUp(cfg.height, scaleStep)
imageRoi == ROI(0, cfg.width, 0, cfg.height)
fullRoi == ROI(0, cfg.width, 0, cfg.height)

\* The tile ROIs of a camera: tiles of the buffer size, each beginning
\* bufferSize - padding after the previous one (neighbours overlap by the
\* padding), the last one clipped to the image.
tileBegins(size, bufferSize, padding) ==
    {b \in 0 .. size - 1 :
        /\ b % (bufferSize - padding) = 0
        /\ (b = 0 \/ b + padding < size)}
getTileRoiList(tp, width, height) ==
    {ROI(xb, Min(xb + tp.bufferWidth, width), yb, Min(yb + tp.bufferHeight, height)) :
        xb \in tileBegins(width, tp.bufferWidth, tp.padding),
        yb \in tileBegins(height, tp.bufferHeight, tp.padding)}
tileRoiList == cfg.tiles

\* The synthetic scene the maps are cut from, in the pixels of the downscaled
\* image: one depth everywhere, or a ramp in which no two pixels are equal.
Constant(depth) == [kind |-> "constant", depth |-> depth]
Ramp == [kind |-> "ramp", depth |-> 1]
Scenes == {Constant(1), Ramp}
\* valid depths among pixels without depth: 0, -1/2 and -1
Holes == [kind |-> "holes", depth |-> 2]
sceneValue(x, y) ==
    IF cfg.scene.kind = "constant" THEN Val(cfg.scene.depth)
    ELSE IF cfg.scene.kind = "ramp" THEN Val(cfg.scene.depth + x + imageWidth * y)
    ELSE LET k == (x + imageWidth * y) % 4
         IN  IF k = 0 THEN Val(cfg.scene.depth + x)
             ELSE IF k = 1 THEN Val(0)
             ELSE IF k = 2 THEN Rat(-1, 2)
             ELSE Val(-1)

\* the map of a tile: the scene over the downscaled ROI
tileMapOf(roi) ==
    LET d == downscaleROI(roi, scaleStep)
    IN  [w |-> roiWidth(d), h |-> roiHeight(d),
         px |-> [p \in Pixels(roiWidth(d), roiHeight(d)) |-> sceneValue(d.xb + p[1], d.yb + p[2])]]

Config(width, height, scale, step, tileParams, tiles, scene) ==
    [width |-> width, height |-> height, scale |-> scale, step |-> step,
     tileParams |-> tileParams, tiles |-> tiles, scene |-> scene]

\* a grid of columns x rows tiles of buffer size 2 * padding + span, the image clip pixels short
GridConfig(layout, padding, span, clip, scale, step, scene) ==
    LET buffer == 2 * padding + span
        side(n) == n * (buffer - padding) + padding - clip
        tp == TileParams(buffer, buffer, padding)
    IN  Config(side(layout[1]), side(layout[2]), scale, step, tp,
               getTileRoiList(tp, side(layout[1]), side(layout[2])), scene)

----------------------------------------------------------------------------
(* readMapFromTiles: one iteration of the loop over the tiles              *)

\* roi = intersect(tileRoi, imageRoi); an empty roi is skipped; the tile is read
\* (tileRead.ok, tileRead.map) and added, a failed read is caught and logged
loopStepNoEmptyTest(tileRoi, tileRead) ==
    LET roi == intersect(tileRoi, imageRoi)
    IN  [tile |-> tileRoi, roi |-> roi, read |-> TRUE, added |-> tileRead.ok]
loopStep(tileRoi, tileRead) ==
    LET roi == intersect(tileRoi, imageRoi)
    IN  [tile |-> tileRoi, roi |-> roi,
         read |-> ~roiIsEmpty(roi),
         added |-> ~roiIsEmpty(roi) /\ tileRead.ok]
mergeTileOntoZeros(tileParams, tileRoi, tileRead, out_map) ==
    LET step == loopStep(tileRoi, tileRead)
    IN  IF ~step.added THEN out_map
        ELSE addTileMapWeighted(cfg.width, cfg.height, tileParams, step.roi, scaleStep,
                                tileRead.map, ZeroImage(out_map.w, out_map.h))
mergeTile(tileParams, tileRoi, tileRead, out_map) ==
    LET step == loopStep(tileRoi, tileRead)
    IN  IF ~step.added THEN out_map
        ELSE addTileMapWeighted(cfg.width, cfg.height, tileParams, step.roi, scaleStep,
                                tileRead.map, out_map)

Read(map) == [ok |-> TRUE, map |-> map]
ReadFailed == [ok |-> FALSE, map |-> EmptyImage]

----------------------------------------------------------------------------
(* Merge of the tiles of one camera, tile by tile                          *)

NoFiles == <<>>
\* a call of depthSimMapIO: its name, what it was given, what it returned (raised:
\* an exception left the call), and the calls it made
Call(op) ==
    [op |-> op, raised |-> FALSE, depthMap |-> EmptyImage, simMap |-> EmptyImage, calls |-> {},
     tileParams |-> TileParams(0, 0, 0), roi |-> [xb |-> 0, xe |-> 0, yb |-> 0, ye |-> 0],
     paths |-> {}, before |-> NoFiles, failed |-> {}, nbDepthValues |-> 0]
NoCall == Call("none")
NoKernel == [width |-> 0, height |-> 0]

fsIdle ==
    /\ dirExists = FALSE
    /\ dir = NoFiles
    /\ last = NoCall

NoHost == [fn |-> "none", nbIterations |-> 0, statements |-> <<>>, pc |-> 1, unchecked |-> 0,
           raised |-> FALSE, returned |-> FALSE]
NoMap == [base |-> "unset", iters |-> <<>>]
NoDevice == [executed |-> 0, error |-> FALSE, out |-> NoMap, tmp |-> NoMap, variance |-> FALSE]
NoVolume == [costs |-> <<>>, best |-> 0, secBest |-> 0, done |-> {}]
sgmIdle == vol = NoVolume

NoBand == [border |-> <<>>, in_tileMap |-> EmptyImage, count |-> 0]
borderIdle == band = NoBand

NoView == [pc |-> "none"]
intrinsicIdle == call = NoView
NoSplit == [pc |-> "none"]
splitIdle == split = NoSplit

hostIdle ==
    /\ host = NoHost
    /\ stream = <<>>
    /\ dev = NoDevice

kernelIdle ==
    /\ kin = NoKernel
    /\ ran = {}
    /\ nmap = <<>>
    /\ s3d = <<>>
    /\ pca = <<>>
    /\ fault = FALSE

MergeConfigs ==
    {c \in {GridConfig(layout, padding, span, clip, scale, 1, scene) :
                layout \in Layouts, padding \in 0 .. MaxPadding, span \in Spans,
                clip \in Clips, scale \in 1 .. MaxScaleStep, scene \in Scenes} :
        c.tileParams.bufferWidth > c.tileParams.padding + 1}

InitMerge ==
    /\ cfg \in MergeConfigs
    /\ acc = ZeroImage(imageWidth, imageHeight)
    /\ added = {}
    /\ steps = {}
    /\ fsIdle
    /\ kernelIdle
    /\ hostIdle
    /\ sgmIdle
    /\ borderIdle
    /\ intrinsicIdle
    /\ splitIdle

\* the loop body of readMapFromTiles for one tile of the camera, read from its file
AddTile(roi) ==
    /\ roi \in tileRoiList \ added
    /\ acc' = mergeTile(cfg.tileParams, roi, Read(tileMapOf(roi)), acc)
    /\ added' = added \cup {roi}
    /\ steps' = steps \cup {loopStep(roi, Read(tileMapOf(roi)))}
    /\ UNCHANGED <<cfg, fsVars, kernelVars, hostVars, sgmVars, borderVars, intrinsicVars, splitVars>>

NextMerge == \E roi \in tileRoiList : AddTile(roi)

SpecMerge == InitMerge /\ [][NextMerge]_vars

----------------------------------------------------------------------------
(* Claims on the merge law                                                 *)

\* every tile of the camera has 0 <= 2 * padding < min(tileWidth, tileHeight)
paddingBelowHalf ==
    \A roi \in tileRoiList :
        LET g == tileGeometry(cfg.width, cfg.height, cfg.tileParams, roi, scaleStep)
        IN  2 * g.tilePadding < Min(g.tileWidth, g.tileHeight)

\* no border of a tile has an interpolation span (size - 2 * margin) of zero
noZeroSpan ==
    \A roi \in tileRoiList :
        LET calls == tileBorderCalls(tileGeometry(cfg.width, cfg.height, cfg.tileParams, roi, scaleStep))
        IN  \A i \in 1 .. Len(calls) :
                \/ calls[i].borderWidth <= 0
                \/ calls[i].borderHeight <= 0
                \/ (calls[i].borderWidth # 2 * margin /\ calls[i].borderHeight # 2 * margin)

merged == added = tileRoiList

\* C1: over a tile grid that covers the image, neighbours overlapping by the
\* padding p, 0 <= p < min(tileWidth, tileHeight) / 2, scale step 1, the weights
\* applied to an output pixel by all the tiles containing it sum to 1 (every tile
\* map is 1 everywhere, so the merged map is the sum of the weights).
C1_WeightsSumToOne ==
    (merged /\ cfg.scene = Constant(1) /\ scaleStep = 1 /\ paddingBelowHalf)
        => \A p \in DOMAIN acc.px : acc.px[p] = Val(1)

\* the same with the zero spans left out
C1_WeightsSumToOneNoZeroSpan ==
    (merged /\ cfg.scene = Constant(1) /\ scaleStep = 1 /\ paddingBelowHalf /\ noZeroSpan)
        => \A p \in DOMAIN acc.px : acc.px[p] = Val(1)

\* C3: a single tile whose ROI is the whole image is not weighted at all, and
\* the zero-initialised output map becomes the tile map, pixel for pixel (what
\* the untiled fast path reads from the file), for every padding and scale step.
C3_WholeImageTileUnweighted ==
    (tileRoiList = {fullRoi} /\ added = {fullRoi})
        => /\ tileBorderCalls(tileGeometry(cfg.width, cfg.height, cfg.tileParams,
                                           fullRoi, scaleStep)) = <<>>
           /\ acc = tileMapOf(fullRoi)

C3_Witness ==
    /\ tileRoiList = {fullRoi} /\ added = {fullRoi}
    /\ cfg.scene = Ramp /\ cfg.tileParams.padding > 0 /\ scaleStep > 1
    /\ acc.w > 2 /\ acc.h > 2

----------------------------------------------------------------------------
(* Scenario: a 64 x 64 image in four 40 x 40 tiles                         *)

Scenario == [side |-> 64, tile |-> 40, paddings |-> {8, 16}]

ScenarioTiles ==
    LET lo == 0
        hi == Scenario.side - Scenario.tile
    IN  {ROI(xb, xb + Scenario.tile, yb, yb + Scenario.tile) : xb \in {lo, hi}, yb \in {lo, hi}}

InitScenario ==
    /\ cfg \in {Config(Scenario.side, Scenario.side, 1, 1,
                       TileParams(Scenario.tile, Scenario.tile, padding),
                       ScenarioTiles, Constant(depth)) :
                    padding \in Scenario.paddings, depth \in 1 .. MaxDepth}
    /\ acc = ZeroImage(imageWidth, imageHeight)
    /\ added = {}
    /\ steps = {}
    /\ fsIdle
    /\ kernelIdle
    /\ hostIdle
    /\ sgmIdle
    /\ borderIdle
    /\ intrinsicIdle
    /\ splitIdle

SpecScenario == InitScenario /\ [][NextMerge]_vars

validPixels == {p \in DOMAIN acc.px : acc.px[p][1] > 0}

\* C2 as stated: with tile padding 8, after the four tiles every output pixel is d
C2_UniformWithPadding8 ==
    (merged /\ cfg.tileParams.padding = 8)
        => \A p \in DOMAIN acc.px : acc.px[p] = Val(cfg.scene.depth)

\* C2, amended: with tile padding 16 (the overlap of neighbouring tiles) every
\* output pixel is d after the four tiles, and 4096 pixels are valid; with
\* padding 8 the 4096 pixels are valid as well (none is 0, none is counted twice).
C2_UniformWithPadding16 ==
    merged =>
        /\ Cardinality(validPixels) = Scenario.side * Scenario.side
        /\ cfg.tileParams.padding = 16
              => \A p \in DOMAIN acc.px : acc.px[p] = Val(cfg.scene.depth)

C2_Witness ==
    /\ merged /\ Cardinality(added) = 4
    /\ cfg.tileParams.padding = 16 /\ cfg.scene.depth = 2
    /\ acc.w = 64 /\ acc.h = 64

----------------------------------------------------------------------------
(* Files of the depth/sim map directory                                    *)

\* getFileNameFromIndex(mp, rc, fileType, scale, customSuffix, tileBeginX, tileBeginY):
\* one name per file type, with the tile origin as a suffix for a tile
Path(fileType, tileBeginX, tileBeginY) ==
    [fileType |-> fileType, tileBeginX |-> tileBeginX, tileBeginY |-> tileBeginY]
fullPath(fileType) == Path(fileType, -1, -1)
FileTypes == {"depthMap", "simMap"}

\* fs::exists
exists(path) == path \in DOMAIN dir

\* oiio::ParamValueList: the entries in the order of push_back
ParamValue(name, type, value) == [name |-> name, type |-> type, value |-> value]
\* metadata.find(name): the first entry of that name, 0 for end()
find(metadata, name) ==
    LET found == {i \in 1 .. Len(metadata) : metadata[i].name = name}
    IN  IF found = {} THEN 0 ELSE CHOOSE i \in found : \A j \in found : i <= j
\* the value the readers keep: that of an entry of type INT, the previous value otherwise
getIntOr(metadata, name, previous) ==
    LET i == find(metadata, name)
    IN  IF i # 0 /\ metadata[i].type = "INT" THEN metadata[i].value ELSE previous

\* a default-constructed ROI and the default TileParams
DefaultROI == ROI(0, 0, 0, 0)
DefaultTileParams == TileParams(2 * 512, 2 * 512, 2 * 32)

\* getRoiFromMetadata(mapTilePath, out_roi)
getRoiFromMetadataLenient(metadata, out_roi) ==
    [raised |-> FALSE,
     roi |-> ROI(getIntOr(metadata, "AliceVision:roiBeginX", out_roi.xb),
                 getIntOr(metadata, "AliceVision:roiEndX", out_roi.xe),
                 getIntOr(metadata, "AliceVision:roiBeginY", out_roi.yb),
                 getIntOr(metadata, "AliceVision:roiEndY", out_roi.ye))]
getRoiFromMetadata(metadata, out_roi) ==
    LET roi == ROI(getIntOr(metadata, "AliceVision:roiBeginX", out_roi.xb),
                   getIntOr(metadata, "AliceVision:roiEndX", out_roi.xe),
                   getIntOr(metadata, "AliceVision:roiBeginY", out_roi.yb),
                   getIntOr(metadata, "AliceVision:roiEndY", out_roi.ye))
    IN  [raised |-> (roi.xb < 0) \/ (roi.yb < 0) \/ (roi.xe <= 0) \/ (roi.ye <= 0),
         roi |-> roi]

\* getTileParamsFromMetadata(mapTilePath, out_tileParams)
getTileParamsFromMetadata(metadata, out_tileParams) ==
    LET tp == TileParams(
                getIntOr(metadata, "AliceVision:tileBufferWidth", out_tileParams.bufferWidth),
                getIntOr(metadata, "AliceVision:tileBufferHeight", out_tileParams.bufferHeight),
                getIntOr(metadata, "AliceVision:tilePadding", out_tileParams.padding))
    IN  [raised |-> (tp.bufferWidth <= 0) \/ (tp.bufferHeight <= 0) \/ (tp.padding < 0),
         tileParams |-> tp]

\* getTilePathList: the files of the directory named <stem>_<digits>_<digits><ext>
tilePaths(fileType) ==
    {path \in DOMAIN dir :
        path.fileType = fileType /\ path.tileBeginX >= 0 /\ path.tileBeginY >= 0}

\* the orders in which the directory iterator may return a set of files
RECURSIVE Orders(_)
Orders(S) ==
    IF S = {} THEN {<<>>}
    ELSE UNION {{<<e>> \o rest : rest \in Orders(S \ {e})} : e \in S}

\* image::readImage: the pixels of the file; it throws on a missing or unreadable file
readImage(path) ==
    IF exists(path) /\ dir[path].readable THEN Read(dir[path].image) ELSE ReadFailed

----------------------------------------------------------------------------
(* writeDepthSimMap                                                        *)

\* std::numeric_limits<float>::max(): here a value above every depth of the model
FLT_MAX == 1000000000

values(map) == {map.px[p] : p \in DOMAIN map.px}
maxOf(S) == CHOOSE m \in S : \A v \in S : RLeq(v, m)
minOf(S) == CHOOSE m \in S : \A v \in S : RLeq(m, v)

\* the min/max/nb depth metadata
nbDepthValuesOf(depthMap) == Cardinality({p \in DOMAIN depthMap.px : depthMap.px[p][1] > 0})
maxDepthOf(depthMap) ==
    maxOf({Val(-1)} \cup {v \in values(depthMap) : ~RLeq(v, Val(-1))})
minDepthOf(depthMap) ==
    minOf({Val(FLT_MAX)} \cup {v \in values(depthMap) : ~RLeq(v, Val(-1))})

\* the roi metadata: the ROI in the pixels of the full-size image
roiMetadataDownscaled(roi) ==
    LET d == downscaleROI(roi, scaleStep)
    IN  <<ParamValue("AliceVision:roiBeginX", "INT", d.xb),
          ParamValue("AliceVision:roiBeginY", "INT", d.yb),
          ParamValue("AliceVision:roiEndX", "INT", d.xe),
          ParamValue("AliceVision:roiEndY", "INT", d.ye)>>
roiMetadata(roi) ==
    <<ParamValue("AliceVision:roiBeginX", "INT", roi.xb),
      ParamValue("AliceVision:roiBeginY", "INT", roi.yb),
      ParamValue("AliceVision:roiEndX", "INT", roi.xe),
      ParamValue("AliceVision:roiEndY", "INT", roi.ye)>>

tileParamsMetadata(tileParams) ==
    <<ParamValue("AliceVision:tileBufferWidth", "INT", tileParams.bufferWidth),
      ParamValue("AliceVision:tileBufferHeight", "INT", tileParams.bufferHeight),
      ParamValue("AliceVision:tilePadding", "INT", tileParams.padding)>>

\* the metadata list of writeDepthSimMap (the camera matrices are left out)
mapMetadata(tileParams, roi, depthMap) ==
    <<ParamValue("AliceVision:downscale", "INT", scaleStep)>>
    \o roiMetadata(roi)
    \o tileParamsMetadata(tileParams)
    \o <<ParamValue("AliceVision:nbDepthValues", "INT", nbDepthValuesOf(depthMap)),
         ParamValue("AliceVision:minDepth", "FLOAT", minDepthOf(depthMap)),
         ParamValue("AliceVision:maxDepth", "FLOAT", maxDepthOf(depthMap))>>

File(metadata, image) == [metadata |-> metadata, image |-> image, readable |-> TRUE]

\* is a tile: the downscaled ROI is not of the size of the downscaled image
isTile(roi) ==
    LET d == downscaleROI(roi, scaleStep)
    IN  roiWidth(d) # imageWidth \/ roiHeight(d) # imageHeight

mapPathOfDownscaledRoi(fileType, roi) ==
    IF isTile(roi)
    THEN Path(fileType, downscaleROI(roi, scaleStep).xb, downscaleROI(roi, scaleStep).yb)
    ELSE fullPath(fileType)
mapPath(fileType, roi) ==
    IF isTile(roi) THEN Path(fileType, roi.xb, roi.yb) ELSE fullPath(fileType)

\* the files writeDepthSimMap(rc, mp, tileParams, roi, depthMap, simMap, scale, step) writes:
\* a map of size 0 is not written
writtenFiles(tileParams, roi, depthMap, simMap) ==
    LET metadata == mapMetadata(tileParams, roi, depthMap)
        depth == IF depthMap.w * depthMap.h > 0
                 THEN {<<mapPath("depthMap", roi), File(metadata, depthMap)>>} ELSE {}
        sim == IF simMap.w * simMap.h > 0
               THEN {<<mapPath("simMap", roi), File(metadata, simMap)>>} ELSE {}
    IN  depth \cup sim

\* the directory after the files are written
writeFiles(files) ==
    LET paths == {f[1] : f \in files}
    IN  [path \in DOMAIN dir \cup paths |->
            IF path \in paths THEN (CHOOSE f \in files : f[1] = path)[2] ELSE dir[path]]

\* the similarity map that goes with the depth map of a ROI
simMapOf(roi) ==
    LET t == tileMapOf(roi)
    IN  [t EXCEPT !.px = [p \in DOMAIN t.px |-> RAdd(t.px[p], Val(100))]]

Written(op, tileParams, roi, files) ==
    [Call(op) EXCEPT !.tileParams = tileParams, !.roi = roi, !.paths = {f[1] : f \in files}]

----------------------------------------------------------------------------
(* readMapFromTiles, readDepthMap, readSimMap, readDepthSimMap             *)

\* the loop over the tiles: each ROI is clipped to the image, the tile is read from
\* the path of the clipped ROI and added, a failed read is caught
RECURSIVE mergeTilesStopAtFailure(_, _, _, _, _)
mergeTilesStopAtFailure(fileType, tileParams, rois, i, out_map) ==
    IF i > Len(rois) THEN out_map
    ELSE LET roi == intersect(rois[i], imageRoi)
             tileRead == readImage(Path(fileType, roi.xb, roi.yb))
         IN  IF ~roiIsEmpty(roi) /\ ~tileRead.ok THEN out_map
             ELSE mergeTilesStopAtFailure(fileType, tileParams, rois, i + 1,
                                          mergeTile(tileParams, rois[i], tileRead, out_map))
RECURSIVE mergeTiles(_, _, _, _, _)
mergeTiles(fileType, tileParams, rois, i, out_map) ==
    IF i > Len(rois) THEN out_map
    ELSE LET roi == intersect(rois[i], imageRoi)
             tileRead == readImage(Path(fileType, roi.xb, roi.yb))
         IN  mergeTiles(fileType, tileParams, rois, i + 1,
                        mergeTile(tileParams, rois[i], tileRead, out_map))

Result(raised, map, calls) == [raised |-> raised, map |-> map, calls |-> calls]

\* readMapFromTiles(rc, mp, fileType, out_map, scale, step), the directory iterator
\* returning the tile files in the order of list
readMapFromTiles(fileType, list) ==
    LET out_map == ZeroImage(imageWidth, imageHeight)
        calls == {<<"readMapFromTiles", fileType>>, <<"getTilePathList", fileType>>}
    IN  IF ~dirExists THEN Result(TRUE, out_map, calls)
        ELSE IF list = <<>> THEN Result(FALSE, out_map, calls)
        ELSE LET tp == getTileParamsFromMetadata(dir[list[1]].metadata, DefaultTileParams)
                 rois == [i \in 1 .. Len(list) |->
                            getRoiFromMetadata(dir[list[i]].metadata, DefaultROI)]
             IN  IF tp.raised \/ \E i \in 1 .. Len(list) : rois[i].raised
                 THEN Result(TRUE, out_map, calls)
                 ELSE Result(FALSE,
                             mergeTiles(fileType, tp.tileParams,
                                        [i \in 1 .. Len(list) |-> rois[i].roi], 1, out_map),
                             calls)

\* the untiled fast path: image::readImage of the full-size file
readFullMap(fileType) ==
    LET r == readImage(fullPath(fileType))
    IN  Result(~r.ok, r.map, {<<"readImage", fullPath(fileType)>>})

\* readDepthMap / readSimMap
readMapTilesFirst(fileType, list) ==
    IF list = <<>> /\ exists(fullPath(fileType)) THEN readFullMap(fileType)
    ELSE readMapFromTiles(fileType, list)
readMap(fileType, list) ==
    IF exists(fullPath(fileType)) THEN readFullMap(fileType)
    ELSE readMapFromTiles(fileType, list)

\* readDepthSimMap: <<depth result, sim result>>; the second read is not made when
\* the first one raises
readDepthSimMapPerMap(depthList, simList) ==
    LET depth == readMap("depthMap", depthList)
        sim == readMap("simMap", simList)
    IN  IF depth.raised THEN <<depth, Result(FALSE, EmptyImage, {})>> ELSE <<depth, sim>>
readDepthSimMap(depthList, simList) ==
    LET both == exists(fullPath("depthMap")) /\ exists(fullPath("simMap"))
        depth == IF both THEN readFullMap("depthMap") ELSE readMapFromTiles("depthMap", depthList)
        sim == IF both THEN readFullMap("simMap") ELSE readMapFromTiles("simMap", simList)
    IN  IF depth.raised THEN <<depth, Result(FALSE, EmptyImage, {})>> ELSE <<depth, sim>>

----------------------------------------------------------------------------
(* The depth/sim map directory of one camera and the calls on it           *)

MaxIOPadding == 1
MaxFaults == 1

IOSpans == {2}
IOLayouts == {<<2, 1>>, <<1, 2>>}
IOScaleSteps == {<<0, 1>>, <<2, 1>>, <<1, 2>>}

IOScenes == {Ramp, Holes}

\* the scene with holes is written and read at full size, without padding
IOConfigs ==
    {GridConfig(layout, padding, span, 0, ss[1], ss[2], Ramp) :
        layout \in IOLayouts, padding \in 0 .. MaxIOPadding, span \in IOSpans,
        ss \in IOScaleSteps}
    \cup {GridConfig(layout, 0, span, 0, 0, 1, scene) :
             layout \in IOLayouts, span \in IOSpans, scene \in IOScenes}

mergeIdle ==
    /\ acc = EmptyImage
    /\ added = {}
    /\ steps = {}

Init ==
    /\ cfg \in IOConfigs
    /\ dirExists = FALSE
    /\ dir = NoFiles
    /\ last = NoCall
    /\ mergeIdle
    /\ kernelIdle
    /\ hostIdle
    /\ sgmIdle
    /\ borderIdle
    /\ intrinsicIdle
    /\ splitIdle

\* the depth map folder is created
CreateDirectory ==
    /\ ~dirExists
    /\ dirExists' = TRUE
    /\ last' = Call("createDirectory")
    /\ UNCHANGED <<cfg, dir, mergeVars, kernelVars, hostVars, sgmVars, borderVars, intrinsicVars, splitVars>>

\* writeDepthSimMap(rc, mp, tileParams, roi, depthMap, simMap, scale, step) for a tile of the camera
WriteTile(roi) ==
    /\ dirExists
    /\ roi \in tileRoiList
    /\ LET files == writtenFiles(cfg.tileParams, roi, tileMapOf(roi), simMapOf(roi))
       IN  /\ dir' = writeFiles(files)
           /\ last' = Written("writeDepthSimMap", cfg.tileParams, roi, files)
    /\ UNCHANGED <<cfg, dirExists, mergeVars, kernelVars, hostVars, sgmVars, borderVars, intrinsicVars, splitVars>>

\* writeDepthSimMap(rc, mp, depthMap, simMap, scale, step): default tile parameters, full roi
WriteFull ==
    /\ dirExists
    /\ LET files == writtenFiles(DefaultTileParams, fullRoi, tileMapOf(fullRoi), simMapOf(fullRoi))
       IN  /\ dir' = writeFiles(files)
           /\ last' = Written("writeDepthSimMap", DefaultTileParams, fullRoi, files)
    /\ UNCHANGED <<cfg, dirExists, mergeVars, kernelVars, hostVars, sgmVars, borderVars, intrinsicVars, splitVars>>

\* writeDepthMap(rc, mp, depthMap, scale, step): empty simMap, only the depth map is written
WriteDepthMap ==
    /\ dirExists
    /\ LET files == writtenFiles(DefaultTileParams, fullRoi, tileMapOf(fullRoi), EmptyImage)
       IN  /\ dir' = writeFiles(files)
           /\ last' = Written("writeDepthMap", DefaultTileParams, fullRoi, files)
    /\ UNCHANGED <<cfg, dirExists, mergeVars, kernelVars, hostVars, sgmVars, borderVars, intrinsicVars, splitVars>>

isRoiEntry(e) ==
    e.name \in {"AliceVision:roiBeginX", "AliceVision:roiBeginY",
                "AliceVision:roiEndX", "AliceVision:roiEndY"}
isOtherEntry(e) == ~isRoiEntry(e)

hasRoiMetadata(path) ==
    \E i \in 1 .. Len(dir[path].metadata) : isRoiEntry(dir[path].metadata[i])

\* the damaged files of the directory
damaged == {path \in DOMAIN dir : ~dir[path].readable \/ ~hasRoiMetadata(path)}

\* the pixel data of a tile file becomes unreadable (truncated or corrupt file)
DamagePixels(path) ==
    /\ Cardinality(damaged) < MaxFaults
    /\ path \in tilePaths("depthMap") \cup tilePaths("simMap")
    /\ dir[path].readable
    /\ dir' = [dir EXCEPT ![path].readable = FALSE]
    /\ last' = Call("damage")
    /\ UNCHANGED <<cfg, dirExists, mergeVars, kernelVars, hostVars, sgmVars, borderVars, intrinsicVars, splitVars>>

\* a tile file loses its ROI metadata (rewritten by a tool that drops it)
StripRoi(path) ==
    /\ Cardinality(damaged) < MaxFaults
    /\ path \in tilePaths("depthMap") \cup tilePaths("simMap")
    /\ hasRoiMetadata(path)
    /\ dir' = [dir EXCEPT ![path].metadata = SelectSeq(@, isOtherEntry)]
    /\ last' = Call("damage")
    /\ UNCHANGED <<cfg, dirExists, mergeVars, kernelVars, hostVars, sgmVars, borderVars, intrinsicVars, splitVars>>

ReadDepthMap ==
    /\ \E list \in Orders(tilePaths("depthMap")) :
          \E r \in {readMap("depthMap", list)} :
              last' = [Call("readDepthMap") EXCEPT
                          !.raised = r.raised, !.depthMap = r.map, !.calls = r.calls]
    /\ UNCHANGED <<cfg, dirExists, dir, mergeVars, kernelVars, hostVars, sgmVars, borderVars, intrinsicVars, splitVars>>

ReadSimMap ==
    /\ \E list \in Orders(tilePaths("simMap")) :
          \E r \in {readMap("simMap", list)} :
              last' = [Call("readSimMap") EXCEPT
                          !.raised = r.raised, !.simMap = r.map, !.calls = r.calls]
    /\ UNCHANGED <<cfg, dirExists, dir, mergeVars, kernelVars, hostVars, sgmVars, borderVars, intrinsicVars, splitVars>>

ReadDepthSimMap ==
    /\ \E depthList \in Orders(tilePaths("depthMap")), simList \in Orders(tilePaths("simMap")) :
          \E r \in {readDepthSimMap(depthList, simList)} :
              last' = [Call("readDepthSimMap") EXCEPT
                          !.raised = r[1].raised \/ r[2].raised,
                          !.depthMap = r[1].map, !.simMap = r[2].map,
                          !.calls = r[1].calls \cup r[2].calls]
    /\ UNCHANGED <<cfg, dirExists, dir, mergeVars, kernelVars, hostVars, sgmVars, borderVars, intrinsicVars, splitVars>>

Next ==
    \/ CreateDirectory
    \/ \E roi \in tileRoiList : WriteTile(roi)
    \/ WriteFull
    \/ WriteDepthMap
    \/ \E path \in DOMAIN dir : DamagePixels(path)
    \/ \E path \in DOMAIN dir : StripRoi(path)
    \/ ReadDepthMap
    \/ ReadSimMap
    \/ ReadDepthSimMap

Spec == Init /\ [][Next]_vars

----------------------------------------------------------------------------
(* Claims on the files and the readers                                     *)

Reads == {"readDepthMap", "readSimMap", "readDepthSimMap"}
Writes == {"writeDepthSimMap", "writeDepthMap"}

\* the map of a file type the last read returned
resultMap(fileType) == IF fileType = "depthMap" THEN last.depthMap ELSE last.simMap

\* the last call was a read that asked for the map of this file type
requested(fileType) ==
    \/ last.op = "readDepthSimMap"
    \/ last.op = "readDepthMap" /\ fileType = "depthMap"
    \/ last.op = "readSimMap" /\ fileType = "simMap"

\* the last call was a read that had to rebuild the map of this file type from the tiles
viaTiles(fileType) ==
    \/ last.op = "readDepthMap" /\ fileType = "depthMap" /\ ~exists(fullPath("depthMap"))
    \/ last.op = "readSimMap" /\ fileType = "simMap" /\ ~exists(fullPath("simMap"))
    \/ last.op = "readDepthSimMap"
          /\ ~(exists(fullPath("depthMap")) /\ exists(fullPath("simMap")))

\* the last read took the map of this file type from the full-size file alone
readDirectly(fileType) ==
    /\ <<"readImage", fullPath(fileType)>> \in last.calls
    /\ <<"getTilePathList", fileType>> \notin last.calls
    /\ <<"readMapFromTiles", fileType>> \notin last.calls
    /\ ~last.raised
    /\ resultMap(fileType) = dir[fullPath(fileType)].image

allTilePaths == tilePaths("depthMap") \cup tilePaths("simMap")

\* C4: the ROI given to writeDepthSimMap (begin >= 0, end > 0) is what
\* getRoiFromMetadata returns from each written file, without raising, in the
\* pixels of the full-size image, for every scale and step; and
\* getTileParamsFromMetadata returns the tile parameters that were written.
C4_RoiRoundTrip ==
    last.op \in Writes =>
        /\ last.paths # {}
        /\ \A path \in last.paths :
              /\ exists(path)
              /\ getRoiFromMetadata(dir[path].metadata, DefaultROI)
                    = [raised |-> FALSE, roi |-> last.roi]
              /\ getTileParamsFromMetadata(dir[path].metadata, TileParams(0, 0, 0))
                    = [raised |-> FALSE, tileParams |-> last.tileParams]

C4_Witness ==
    /\ last.op = "writeDepthSimMap"
    /\ last.roi.xb + last.roi.yb > 0 /\ last.roi.xe % 2 = 1
    /\ scaleStep > 1
    /\ Cardinality(last.paths) = 2
    /\ last.tileParams = cfg.tileParams /\ cfg.tileParams.padding > 0

\* C5 as stated: whenever the full-size file of a requested map exists, the map
\* is read from it and no tile discovery or merge is made for it
C5_FastPathPerMap ==
    \A fileType \in FileTypes :
        (requested(fileType) /\ exists(fullPath(fileType))) => readDirectly(fileType)

\* C5, amended: readDepthMap and readSimMap read the map from its full-size file
\* whenever that file exists, readDepthSimMap whenever both full-size files
\* exist, and then no tile discovery or merge is made, whatever tile files
\* are present.
C5_FastPath ==
    \A fileType \in FileTypes :
        (/\ requested(fileType)
         /\ exists(fullPath(fileType))
         /\ last.op = "readDepthSimMap" => \A other \in FileTypes : exists(fullPath(other)))
            => readDirectly(fileType)

C5_Witness ==
    /\ last.op = "readDepthSimMap"
    /\ \A fileType \in FileTypes : exists(fullPath(fileType)) /\ tilePaths(fileType) # {}
    /\ readDirectly("depthMap") /\ readDirectly("simMap")

\* the last read took the map of this file type from its full-size file, from the tiles
fromFullFile(fileType) == <<"readImage", fullPath(fileType)>> \in last.calls
fromTiles(fileType) == <<"readMapFromTiles", fileType>> \in last.calls

\* C29: one call of readDepthSimMap reads both maps from their full-size
\* files, exactly when both files exist, or rebuilds both from the tiles (the
\* similarity map unless the depth map raised): never one map from its file
\* and the other from tiles
C29_SameSource ==
    last.op = "readDepthSimMap" =>
        LET both == \A fileType \in FileTypes : exists(fullPath(fileType))
        IN  /\ both => /\ \A fileType \in FileTypes : fromFullFile(fileType) /\ ~fromTiles(fileType)
                       /\ ~last.raised
                       /\ \A fileType \in FileTypes :
                             resultMap(fileType) = dir[fullPath(fileType)].image
            /\ ~both => /\ \A fileType \in FileTypes : ~fromFullFile(fileType)
                        /\ fromTiles("depthMap")
                        /\ ~last.raised => fromTiles("simMap")

C29_Witness ==
    /\ last.op = "readDepthSimMap"
    /\ exists(fullPath("depthMap")) /\ ~exists(fullPath("simMap"))
    /\ \A fileType \in FileTypes : tilePaths(fileType) # {} /\ fromTiles(fileType)
    /\ ~last.raised
    /\ last.depthMap # dir[fullPath("depthMap")].image

\* the ROI of a tile file, from its metadata
tileRoiOf(path) == getRoiFromMetadata(dir[path].metadata, DefaultROI).roi

RECURSIVE sumOver(_, _, _)
sumOver(S, p, contribution) ==
    IF S = {} THEN Val(0)
    ELSE LET e == CHOOSE e \in S : TRUE
         IN  RAdd(contribution[e].px[p], sumOver(S \ {e}, p, contribution))

\* what each readable tile adds to an output map of zeros
contributions(fileType) ==
    [path \in {q \in tilePaths(fileType) : dir[q].readable} |->
        addTileMapWeighted(cfg.width, cfg.height, cfg.tileParams,
                           intersect(tileRoiOf(path), imageRoi), scaleStep,
                           dir[path].image, ZeroImage(imageWidth, imageHeight))]

covers(path, p) ==
    LET d == downscaleROI(intersect(tileRoiOf(path), imageRoi), scaleStep)
    IN  d.xb <= p[1] /\ p[1] < d.xe /\ d.yb <= p[2] /\ p[2] < d.ye

\* C6: when the pixel data of a discovered tile cannot be read (the metadata of
\* the tiles being there), the read does not raise, the output is the sum of
\* what the other tiles add, and pixels covered only by the failed tile are 0.
C6_UnreadableTileSkipped ==
    \A fileType \in FileTypes :
        (/\ viaTiles(fileType)
         /\ \A path \in allTilePaths : hasRoiMetadata(path)
         /\ \E path \in tilePaths(fileType) : ~dir[path].readable)
            => /\ ~last.raised
               /\ resultMap(fileType).w = imageWidth /\ resultMap(fileType).h = imageHeight
               /\ \E c \in {contributions(fileType)} :
                     \A p \in Pixels(imageWidth, imageHeight) :
                        /\ resultMap(fileType).px[p] = sumOver(DOMAIN c, p, c)
                        /\ (\A path \in DOMAIN c : ~covers(path, p))
                              => resultMap(fileType).px[p] = Val(0)

C6_Witness ==
    /\ last.op = "readDepthMap" /\ viaTiles("depthMap")
    /\ \A path \in allTilePaths : hasRoiMetadata(path)
    /\ Cardinality(tilePaths("depthMap")) = 2
    /\ \E bad, good \in tilePaths("depthMap") :
          /\ ~dir[bad].readable /\ dir[good].readable
          /\ \E p \in DOMAIN last.depthMap.px :
                covers(bad, p) /\ ~covers(good, p) /\ last.depthMap.px[p] = Val(0)
          /\ \E p \in DOMAIN last.depthMap.px :
                covers(good, p) /\ last.depthMap.px[p][1] > 0

C8_NoFileNoError ==
    (last.op \in Reads /\ DOMAIN dir = {}) => ~last.raised

\* C8, amended: with no full-size map file and no tile file in an existing map
\* directory, the reads do not raise and return maps of
\* ceil(width / scaleStep) x ceil(height / scaleStep) zeros, scaleStep =
\* max(scale, 1) * step; without the directory getTilePathList raises.
C8_NoFileZeroMap ==
    \A fileType \in FileTypes :
        (requested(fileType) /\ DOMAIN dir = {})
            => IF dirExists
               THEN /\ ~last.raised
                    /\ resultMap(fileType).w
                          = (cfg.width + Max(cfg.scale, 1) * cfg.step - 1)
                                \div (Max(cfg.scale, 1) * cfg.step)
                    /\ resultMap(fileType).h
                          = (cfg.height + Max(cfg.scale, 1) * cfg.step - 1)
                                \div (Max(cfg.scale, 1) * cfg.step)
                    /\ DOMAIN resultMap(fileType).px
                          = Pixels(resultMap(fileType).w, resultMap(fileType).h)
                    /\ \A p \in DOMAIN resultMap(fileType).px :
                          resultMap(fileType).px[p] = Val(0)
               ELSE last.raised

C8_Witness ==
    /\ last.op = "readDepthSimMap" /\ DOMAIN dir = {} /\ dirExists
    /\ cfg.width % scaleStep # 0 /\ scaleStep > 1
    /\ ~last.raised /\ last.depthMap.w > 1 /\ last.simMap.h > 0

----------------------------------------------------------------------------
(* computeNormalMap_kernel: one thread per position of the launch grid     *)

MaxWsh == 1
KernelSizes == {<<2, 1>>, <<1, 2>>}
KernelDepths == {-1, 0, 1}
\* | normalize(iP * (x, y, 1)) - normalize(iP * (x + 1, y, 1)) | of the camera:
\* a long focal length, and iP = identity at pixel (0, 0)
RaySpacings == {<<1, 1000>>, <<765, 1000>>}
\* what lies around the depth buffer in device memory: some value, or no memory
Outsides == {[mapped |-> TRUE, value |-> d] : d \in KernelDepths}
                \cup {[mapped |-> FALSE, value |-> 0]}

\* the launch grid covers the image and, the block size not dividing it, more
Threads == Pixels(kin.width + 1, kin.height + 1)
inBuffer(q) == q \in Pixels(kin.width, kin.height)

Sentinel == <<-1, -1, -1>>
Unwritten == [written |-> FALSE, nn |-> <<0, 0, 0>>]
Stored(nn) == [written |-> TRUE, nn |-> nn]
\* what s3d.computePlaneByPCA(pp, nn) can give: no plane, or a plane whose normal
\* nn points to either side of it
PCANormals == {<<0, 0, 1>>, <<0, 0, -1>>, <<1, 0, -1>>, <<-1, -1, -1>>}
PlanePoints == {<<0, 0, 1>>, <<1, 2, 3>>}
NoPlane == [ok |-> FALSE, pp |-> <<0, 0, 0>>, nn |-> <<-1, -1, -1>>]
Planes == {NoPlane} \cup {[ok |-> TRUE, pp |-> q, nn |-> n] : q \in PlanePoints, n \in PCANormals}

dot(a, b) == a[1] * b[1] + a[2] * b[2] + a[3] * b[3]
neg(a) == <<-a[1], -a[2], -a[3]>>
plus(a, b) == <<a[1] + b[1], a[2] + b[2], a[3] + b[3]>>

\* iP * (x, y, 1), up to the positive factor normalize() divides by: the focal
\* length that gives the ray spacing of the camera
focal == IF kin.raySpacing = <<765, 1000>> THEN 1 ELSE 1000
ray(x, y) == <<x, y, focal>>
\* nc = C - p, p = C + normalize(ray) * depth, then normalize(nc): for depth > 0
\* the direction of -ray
nc(x, y) == neg(ray(x, y))

orientedPointPlaneDistanceNormalizedNormal(point, planePoint, planeNormalNormalized) ==
    dot(point, planeNormalNormalized) - dot(planePoint, planeNormalNormalized)

\* lines 95-103: the normal written when the plane fit gave the plane (pp, nn)
orientedNeverFlipped(x, y, pp, nn) == nn
oriented(x, y, pp, nn) ==
    IF orientedPointPlaneDistanceNormalizedNormal(plus(pp, nn), pp, nc(x, y)) < 0
    THEN neg(nn)
    ELSE nn

\* *get2DBufferAt<float>(depthMap_d, depthMap_p, x, y)
get2DBufferAt(q) == IF inBuffer(q) THEN kin.depthMap[q] ELSE kin.outside.value

\* pixSize = size(p - p2), p and p2 on the rays of (x, y) and (x + 1, y) at depth
pixSize(depth) == RMul(Val(depth), kin.raySpacing)

\* the test of the window loop on a sample of depth depthn
inPlaneFit(depth, depthn) ==
    depth > 0 /\ RLess(Val(Abs(depthn - depth)), RMul(Val(30), pixSize(depth)))

window(x, y) == {<<x + xp, y + yp>> : xp \in -kin.wsh .. kin.wsh, yp \in -kin.wsh .. kin.wsh}

\* what the thread (x, y) does: the normal it writes, the samples it gives to
\* s3d.update, whether it reads memory that is not there
threadDepthBelowZero(x, y, plane) ==
    IF x >= kin.width \/ y >= kin.height
    THEN [write |-> FALSE, nn |-> Sentinel, samples |-> {}, pca |-> NoPlane, fault |-> FALSE]
    ELSE LET depth == get2DBufferAt(<<x, y>>)
         IN  IF depth < 0
             THEN [write |-> TRUE, nn |-> Sentinel, samples |-> {}, pca |-> NoPlane,
                   fault |-> FALSE]
             ELSE [write |-> TRUE,
                   nn |-> IF plane.ok THEN oriented(x, y, plane.pp, plane.nn) ELSE Sentinel,
                   samples |-> {}, pca |-> plane, fault |-> FALSE]
thread(x, y, plane) ==
    IF x >= kin.width \/ y >= kin.height
    THEN [write |-> FALSE, nn |-> Sentinel, samples |-> {}, pca |-> NoPlane, fault |-> FALSE]
    ELSE LET depth == get2DBufferAt(<<x, y>>)
         IN  IF depth <= 0
             THEN [write |-> TRUE, nn |-> Sentinel, samples |-> {}, pca |-> NoPlane,
                   fault |-> FALSE]
             ELSE IF ~kin.outside.mapped /\ \E q \in window(x, y) : ~inBuffer(q)
             THEN [write |-> FALSE, nn |-> Sentinel, samples |-> {}, pca |-> NoPlane,
                   fault |-> TRUE]
             ELSE [write |-> TRUE,
                   nn |-> IF plane.ok THEN oriented(x, y, plane.pp, plane.nn) ELSE Sentinel,
                   pca |-> plane,
                   samples |-> {[pix |-> q, depthn |-> get2DBufferAt(q)] :
                                   q \in {q \in window(x, y) :
                                             inPlaneFit(depth, get2DBufferAt(q))}},
                   fault |-> FALSE]

Kernel(width, height, wsh, depthMap, raySpacing, outside) ==
    [width |-> width, height |-> height, wsh |-> wsh, depthMap |-> depthMap,
     raySpacing |-> raySpacing, outside |-> outside]

NoConfig == [width |-> 0, height |-> 0, scale |-> 1, step |-> 1]

InitNormal ==
    /\ \E size \in KernelSizes, wsh \in 0 .. MaxWsh, raySpacing \in RaySpacings,
          outside \in Outsides :
          \E depthMap \in [Pixels(size[1], size[2]) -> KernelDepths] :
             kin = Kernel(size[1], size[2], wsh, depthMap, raySpacing, outside)
    /\ ran = {}
    /\ nmap = [t \in Threads |-> Unwritten]
    /\ s3d = [t \in Threads |-> {}]
    /\ pca = [t \in Threads |-> NoPlane]
    /\ fault = FALSE
    /\ cfg = NoConfig
    /\ mergeIdle
    /\ fsIdle
    /\ hostIdle
    /\ sgmIdle
    /\ borderIdle
    /\ intrinsicIdle
    /\ splitIdle

\* one thread of the launch runs to its end; an illegal access ends the launch
computeNormalMap_kernel(x, y) ==
    /\ ~fault
    /\ <<x, y>> \in Threads \ ran
    /\ ran' = ran \cup {<<x, y>>}
    /\ \E plane \in Planes :
          \E r \in {thread(x, y, plane)} :
             /\ nmap' = IF r.write THEN [nmap EXCEPT ![<<x, y>>] = Stored(r.nn)] ELSE nmap
             /\ s3d' = [s3d EXCEPT ![<<x, y>>] = r.samples]
             /\ pca' = [pca EXCEPT ![<<x, y>>] = r.pca]
             /\ fault' = r.fault
    /\ UNCHANGED <<cfg, mergeVars, fsVars, kin, hostVars, sgmVars, borderVars, intrinsicVars, splitVars>>

NextNormal == \E t \in Threads : computeNormalMap_kernel(t[1], t[2])

SpecNormal == InitNormal /\ [][NextNormal]_vars

\* C9: a thread of a pixel (x, y), x < width and y < height, whose depth is <= 0
\* writes the sentinel (-1, -1, -1) whatever the depths around it, and threads
\* with x >= width or y >= height write nothing.
C9_SentinelForInvalidDepth ==
    \A t \in ran :
        IF inBuffer(t)
        THEN kin.depthMap[t] <= 0 => nmap[t] = Stored(Sentinel) /\ s3d[t] = {}
        ELSE nmap[t] = Unwritten

C9_Witness ==
    /\ kin.wsh > 0
    /\ \E t, n, o \in ran :
          /\ inBuffer(t) /\ kin.depthMap[t] = 0 /\ nmap[t] = Stored(Sentinel)
          /\ inBuffer(n) /\ n \in window(t[1], t[2]) /\ kin.depthMap[n] > 0
          /\ pca[n].ok /\ nmap[n] = Stored(oriented(n[1], n[2], pca[n].pp, pca[n].nn))
          /\ ~inBuffer(o) /\ nmap[o] = Unwritten

\* C10: no sample of the depth buffer with depth <= 0 is given to s3d.update:
\* only neighbours with depth > 0 take part in the plane fit
C10_OnlyValidDepthsFitted ==
    \A t \in ran : \A s \in s3d[t] : inBuffer(s.pix) => s.depthn > 0

\* C11: window positions outside [0, width) x [0, height) are omitted: no thread
\* reads the depth buffer outside its bounds (no illegal access ends the
\* launch) and no such position gives a sample to the plane fit
C11_WindowInsideBuffer ==
    /\ ~fault
    /\ \A t \in ran : \A s \in s3d[t] : inBuffer(s.pix)

\* the threads that came to the plane fit: depth > 0, the window read
fitting == {t \in ran : inBuffer(t) /\ kin.depthMap[t] > 0 /\ nmap[t].written}

\* C18: for a pixel with depth > 0, the normal written is the sentinel
\* (-1, -1, -1) if computePlaneByPCA fails; otherwise it is the fitted normal,
\* negated exactly when its dot product with nc = normalize(C - p) is
\* negative, so that the written normal n has dot(n, nc) >= 0
C18_NormalFacesCamera ==
    \A t \in fitting :
        IF pca[t].ok
        THEN /\ dot(nmap[t].nn, nc(t[1], t[2])) >= 0
             /\ nmap[t].nn = IF dot(pca[t].nn, nc(t[1], t[2])) < 0
                             THEN neg(pca[t].nn)
                             ELSE pca[t].nn
        ELSE nmap[t] = Stored(Sentinel)

C18_Witness ==
    \E t, u \in fitting :
        /\ pca[t].ok /\ nmap[t].nn = neg(pca[t].nn)
        /\ ~pca[u].ok /\ nmap[u] = Stored(Sentinel)

----------------------------------------------------------------------------
(* Claims on the accumulation of the tiles                                 *)

\* the readable tile files whose clipped, downscaled ROI contains the pixel
contributors(fileType, p) ==
    {path \in tilePaths(fileType) : dir[path].readable /\ covers(path, p)}

----------------------------------------------------------------------------
(* Claims on the depth statistics of writeDepthSimMap                      *)

metadataValue(metadata, name) == metadata[find(metadata, name)].value
validDepths(map) == {v \in values(map) : v[1] > 0}

\* C12: the minDepth and maxDepth metadata of a written depth map are the
\* minimum and the maximum over its valid depths (depth > 0, the pixels
\* counted by nbDepthValues): a pixel with depth <= 0 never determines them
C12_MinMaxOverValidDepths ==
    last.op \in Writes =>
        \E f \in {dir[mapPath("depthMap", last.roi)]} :
            /\ metadataValue(f.metadata, "AliceVision:nbDepthValues")
                  = Cardinality({p \in DOMAIN f.image.px : f.image.px[p][1] > 0})
            /\ validDepths(f.image) # {} =>
                  /\ metadataValue(f.metadata, "AliceVision:minDepth")
                        = minOf(validDepths(f.image))
                  /\ metadataValue(f.metadata, "AliceVision:maxDepth")
                        = maxOf(validDepths(f.image))

----------------------------------------------------------------------------
(* Merge of tile files whose ROI is not inside the image                   *)

ClipLayouts == {<<1, 1>>, <<2, 1>>, <<1, 2>>}
ClipSpans == {3}

\* the tiles of the grid with the full buffer size, not clipped to the image
unclippedTiles(tp, width, height) ==
    {ROI(xb, xb + tp.bufferWidth, yb, yb + tp.bufferHeight) :
        xb \in tileBegins(width, tp.bufferWidth, tp.padding),
        yb \in tileBegins(height, tp.bufferHeight, tp.padding)}

\* tile files of another image: a ROI beginning at the right edge, one below the image
strayTiles(tp, width, height) ==
    {ROI(width, width + tp.bufferWidth, 0, tp.bufferHeight),
     ROI(0, tp.bufferWidth, height + 1, height + 1 + tp.bufferHeight)}

ClipConfigs ==
    {[c EXCEPT !.tiles = unclippedTiles(c.tileParams, c.width, c.height)
                            \cup strayTiles(c.tileParams, c.width, c.height)] :
        c \in {GridConfig(layout, padding, span, clip, scale, 1, Ramp) :
                  layout \in ClipLayouts, padding \in 0 .. 1, span \in ClipSpans,
                  clip \in Clips, scale \in 1 .. MaxScaleStep}}

InitClip ==
    /\ cfg \in ClipConfigs
    /\ acc = ZeroImage(imageWidth, imageHeight)
    /\ added = {}
    /\ steps = {}
    /\ fsIdle
    /\ kernelIdle
    /\ hostIdle
    /\ sgmIdle
    /\ borderIdle
    /\ intrinsicIdle
    /\ splitIdle

SpecClip == InitClip /\ [][NextMerge]_vars

\* the tile ROI and the image have a pixel in common
sharesPixel(tile) ==
    \E x \in tile.xb .. tile.xe - 1, y \in tile.yb .. tile.ye - 1 :
        0 <= x /\ x < cfg.width /\ 0 <= y /\ y < cfg.height

\* C13: in the tile loop a tile that has no pixel in common with the image is
\* skipped, its file neither read nor accumulated; every other tile is read,
\* and every ROI given to addTileMapWeighted is the tile ROI clipped to the
\* image: not empty and inside [0, width) x [0, height).
C13_TileRoiClipped ==
    /\ \A st \in steps :
          /\ ~sharesPixel(st.tile) => ~st.read /\ ~st.added
          /\ sharesPixel(st.tile) => st.read
          /\ st.added =>
                /\ 0 <= st.roi.xb /\ st.roi.xb < st.roi.xe /\ st.roi.xe <= cfg.width
                /\ 0 <= st.roi.yb /\ st.roi.yb < st.roi.ye /\ st.roi.ye <= cfg.height
                /\ \A x \in st.roi.xb .. st.roi.xe - 1, y \in st.roi.yb .. st.roi.ye - 1 :
                      st.tile.xb <= x /\ x < st.tile.xe /\ st.tile.yb <= y /\ y < st.tile.ye
    /\ (\A st \in steps : ~sharesPixel(st.tile)) => acc = ZeroImage(imageWidth, imageHeight)

C13_Witness ==
    /\ \E st \in steps : ~sharesPixel(st.tile) /\ st.tile.xb = cfg.width /\ ~st.read
    /\ \E st \in steps : ~sharesPixel(st.tile) /\ st.tile.yb > cfg.height /\ ~st.added
    /\ \E st \in steps : st.added /\ st.roi # st.tile /\ st.roi.xb > 0
    /\ \E p \in DOMAIN acc.px : acc.px[p][1] > 0

----------------------------------------------------------------------------
(* Claims on the weights of a tile                                         *)

\* the weight addTileMapWeighted gives to pixel (x, y) of a tile
tileWeight(g, x, y) ==
    weighted(tileBorderCalls(g), 1, g.tileWidth, g.tileHeight, x, y, Val(1))

\* the bands of a tile: the columns / rows of the padding at each side, and between
lowBand(g) == 0 .. g.tilePadding - 1
midColumns(g) == g.tilePadding .. g.tileWidth - g.tilePadding - 1
midRows(g) == g.tilePadding .. g.tileHeight - g.tilePadding - 1
highColumns(g) == g.tileWidth - g.tilePadding .. g.tileWidth - 1
highRows(g) == g.tileHeight - g.tilePadding .. g.tileHeight - 1

allOne(g, X, Y) == \A x \in X, y \in Y : tileWeight(g, x, y) = Val(1)
onlyOnX(g, X, Y) == \A x \in X : \A y1, y2 \in Y : tileWeight(g, x, y1) = tileWeight(g, x, y2)
onlyOnY(g, X, Y) == \A y \in Y : \A x1, x2 \in X : tileWeight(g, x1, y) = tileWeight(g, x2, y)

\* a corner band: weight 1 with both sides on the image boundary, a weight that
\* depends only on the coordinate along the boundary with one side on it
cornerNotRamped(g, onColumnSide, onRowSide, X, Y) ==
    /\ (onColumnSide /\ onRowSide) => allOne(g, X, Y)
    /\ (onRowSide /\ ~onColumnSide) => onlyOnX(g, X, Y)
    /\ (onColumnSide /\ ~onRowSide) => onlyOnY(g, X, Y)

boundarySidesNotRamped(g) ==
    /\ g.firstRow => allOne(g, midColumns(g), lowBand(g))
    /\ g.lastRow => allOne(g, midColumns(g), highRows(g))
    /\ g.firstColumn => allOne(g, lowBand(g), midRows(g))
    /\ g.lastColumn => allOne(g, highColumns(g), midRows(g))
    /\ cornerNotRamped(g, g.firstColumn, g.firstRow, lowBand(g), lowBand(g))
    /\ cornerNotRamped(g, g.firstColumn, g.lastRow, lowBand(g), highRows(g))
    /\ cornerNotRamped(g, g.lastColumn, g.firstRow, highColumns(g), lowBand(g))
    /\ cornerNotRamped(g, g.lastColumn, g.lastRow, highColumns(g), highRows(g))

\* C14: for a tile with a side on the image boundary the edge band of that side
\* keeps weight 1, a corner with both sides on the boundary keeps weight 1, and
\* a corner with one side on the boundary gets a weight that depends only on
\* the coordinate running along the boundary
C14_BoundarySidesNotRamped ==
    \A roi \in added :
        boundarySidesNotRamped(tileGeometry(cfg.width, cfg.height, cfg.tileParams, roi, scaleStep))

\* the same with the zero spans left out
C14_BoundarySidesNotRampedNoZeroSpan ==
    noZeroSpan => C14_BoundarySidesNotRamped

----------------------------------------------------------------------------
(* The host functions of the depth/similarity map module and their stream  *)

MaxIterations == 2

Launch(kernel, iter) == [stmt |-> "launch", kernel |-> kernel, iter |-> iter]
CopyFrom == [stmt |-> "copyFrom", kernel |-> "none", iter |-> -1]
CheckCudaError == [stmt |-> "check", kernel |-> "none", iter |-> -1]

cuda_depthSimMapCopyDepthOnly ==
    <<Launch("depthSimMapCopyDepthOnly_kernel", -1), CheckCudaError>>
cuda_normalMapUpscale ==
    <<Launch("mapUpscale_kernel", -1), CheckCudaError>>
cuda_depthSimMapUpscaleAndFilter ==
    <<Launch("depthSimMapUpscaleAndFilter_kernel", -1), CheckCudaError>>
cuda_depthSimMapComputePixSize ==
    <<Launch("depthSimMapComputePixSize_kernel", -1), CheckCudaError>>
cuda_depthSimMapComputeNormal ==
    <<Launch("depthSimMapComputeNormal_kernel", -1), CheckCudaError>>

\* for(int iter = 0; iter < refineParams.optimizationNbIterations; ++iter)
RECURSIVE optimizeLoopAdjustFirst(_, _)
optimizeLoopAdjustFirst(iter, nbIterations) ==
    IF iter < nbIterations
    THEN <<Launch("optimize_depthSimMap_kernel", iter),
           Launch("optimize_getOptDeptMapFromOptDepthSimMap_kernel", -1)>>
         \o optimizeLoopAdjustFirst(iter + 1, nbIterations)
    ELSE <<>>
RECURSIVE optimizeLoop(_, _)
optimizeLoop(iter, nbIterations) ==
    IF iter < nbIterations
    THEN <<Launch("optimize_getOptDeptMapFromOptDepthSimMap_kernel", -1),
           Launch("optimize_depthSimMap_kernel", iter)>>
         \o optimizeLoop(iter + 1, nbIterations)
    ELSE <<>>

cuda_depthSimMapOptimizeGradientDescent(nbIterations) ==
    <<CopyFrom, Launch("optimize_varLofLABtoW_kernel", -1)>>
    \o optimizeLoop(0, nbIterations)
    \o <<CheckCudaError>>

HostFunctions ==
    {"cuda_depthSimMapCopyDepthOnly", "cuda_normalMapUpscale",
     "cuda_depthSimMapUpscaleAndFilter", "cuda_depthSimMapComputePixSize",
     "cuda_depthSimMapComputeNormal", "cuda_depthSimMapOptimizeGradientDescent"}

\* the statements a call of the function goes through
hostStatementsUncheckedNormal(fn, nbIterations) ==
    IF fn = "cuda_depthSimMapCopyDepthOnly" THEN cuda_depthSimMapCopyDepthOnly
    ELSE IF fn = "cuda_normalMapUpscale" THEN cuda_normalMapUpscale
    ELSE IF fn = "cuda_depthSimMapUpscaleAndFilter" THEN cuda_depthSimMapUpscaleAndFilter
    ELSE IF fn = "cuda_depthSimMapComputePixSize" THEN cuda_depthSimMapComputePixSize
    ELSE IF fn = "cuda_depthSimMapComputeNormal"
    THEN <<Launch("depthSimMapComputeNormal_kernel", -1)>>
    ELSE cuda_depthSimMapOptimizeGradientDescent(nbIterations)
hostStatements(fn, nbIterations) ==
    IF fn = "cuda_depthSimMapCopyDepthOnly" THEN cuda_depthSimMapCopyDepthOnly
    ELSE IF fn = "cuda_normalMapUpscale" THEN cuda_normalMapUpscale
    ELSE IF fn = "cuda_depthSimMapUpscaleAndFilter" THEN cuda_depthSimMapUpscaleAndFilter
    ELSE IF fn = "cuda_depthSimMapComputePixSize" THEN cuda_depthSimMapComputePixSize
    ELSE IF fn = "cuda_depthSimMapComputeNormal" THEN cuda_depthSimMapComputeNormal
    ELSE cuda_depthSimMapOptimizeGradientDescent(nbIterations)

\* the SGM depth/pixSize map given to the optimisation
SgmMap == [base |-> "sgm", iters |-> <<>>]

\* what an operation of the stream does to the maps on the device
execute(op, d) ==
    IF op.stmt = "copyFrom" THEN [d EXCEPT !.out = SgmMap]
    ELSE IF op.kernel = "optimize_varLofLABtoW_kernel" THEN [d EXCEPT !.variance = TRUE]
    ELSE IF op.kernel = "optimize_getOptDeptMapFromOptDepthSimMap_kernel"
    THEN [d EXCEPT !.tmp = d.out]
    ELSE IF op.kernel = "optimize_depthSimMap_kernel"
    THEN [d EXCEPT !.out = [base |-> d.tmp.base, iters |-> Append(d.tmp.iters, op.iter)]]
    ELSE d

InitHost ==
    /\ \E fn \in HostFunctions, nbIterations \in 0 .. MaxIterations :
          host = [NoHost EXCEPT !.fn = fn, !.nbIterations = nbIterations,
                                !.statements = hostStatements(fn, nbIterations)]
    /\ stream = <<>>
    /\ dev = NoDevice
    /\ cfg = NoConfig
    /\ mergeIdle
    /\ fsIdle
    /\ kernelIdle
    /\ sgmIdle
    /\ borderIdle
    /\ intrinsicIdle
    /\ splitIdle

running == ~host.raised /\ ~host.returned /\ host.pc <= Len(host.statements)

\* a kernel launch or an asynchronous copy: the operation goes to the end of
\* the stream, or fails and leaves its error for cudaGetLastError
Enqueue ==
    /\ running
    /\ host.statements[host.pc].stmt \in {"launch", "copyFrom"}
    /\ host' = [host EXCEPT !.pc = @ + 1, !.unchecked = @ + 1]
    /\ \E ok \in BOOLEAN :
          IF ok THEN stream' = Append(stream, host.statements[host.pc]) /\ dev' = dev
          ELSE stream' = stream /\ dev' = [dev EXCEPT !.error = TRUE]
    /\ UNCHANGED <<cfg, mergeVars, fsVars, kernelVars, sgmVars, borderVars, intrinsicVars, splitVars>>

\* CHECK_CUDA_ERROR(): throws on the error recorded so far
Check ==
    /\ running
    /\ host.statements[host.pc].stmt = "check"
    /\ IF dev.error
       THEN host' = [host EXCEPT !.raised = TRUE] /\ dev' = [dev EXCEPT !.error = FALSE]
       ELSE host' = [host EXCEPT !.pc = @ + 1, !.unchecked = 0] /\ dev' = dev
    /\ UNCHANGED <<cfg, mergeVars, fsVars, kernelVars, stream, sgmVars, borderVars, intrinsicVars, splitVars>>

\* the end of the function body
Return ==
    /\ ~host.raised /\ ~host.returned
    /\ host.pc = Len(host.statements) + 1
    /\ host' = [host EXCEPT !.returned = TRUE]
    /\ UNCHANGED <<cfg, mergeVars, fsVars, kernelVars, stream, dev, sgmVars, borderVars, intrinsicVars, splitVars>>

\* the device runs the next operation of the stream, in order; it may fail
Execute ==
    /\ dev.executed < Len(stream)
    /\ \E ok \in BOOLEAN :
          dev' = IF ok THEN [execute(stream[dev.executed + 1], dev) EXCEPT !.executed = @ + 1]
                 ELSE [dev EXCEPT !.executed = @ + 1, !.error = TRUE]
    /\ UNCHANGED <<cfg, mergeVars, fsVars, kernelVars, host, stream, sgmVars, borderVars, intrinsicVars, splitVars>>

NextHost == Enqueue \/ Check \/ Return \/ Execute

SpecHost == InitHost /\ [][NextHost]_vars

\* C15: each of the six host functions makes an error check after its launches
\* and before it returns: no function returns with a launch that no check followed
C15_LaunchesChecked ==
    /\ \A i \in 1 .. Len(host.statements) :
          host.statements[i].stmt # "check" =>
              \E j \in i + 1 .. Len(host.statements) : host.statements[j].stmt = "check"
    /\ host.returned => host.unchecked = 0

C15_Witness ==
    /\ host.returned
    /\ host.fn = "cuda_depthSimMapOptimizeGradientDescent"
    /\ Len(stream) = 2 + 2 * MaxIterations

\* the operations cuda_depthSimMapOptimizeGradientDescent has to enqueue
expectedStream(nbIterations) ==
    <<CopyFrom, Launch("optimize_varLofLABtoW_kernel", -1)>>
    \o [i \in 1 .. 2 * nbIterations |->
          IF i % 2 = 1 THEN Launch("optimize_getOptDeptMapFromOptDepthSimMap_kernel", -1)
          ELSE Launch("optimize_depthSimMap_kernel", i \div 2 - 1)]

\* the depths after the adjust steps 0 .. n - 1, each made on the depths of the one before
adjusted(n) == [base |-> "sgm", iters |-> [i \in 1 .. n |-> i - 1]]

\* no launch, copy or kernel has failed so far
noFailure ==
    /\ ~host.raised /\ ~dev.error
    /\ Len(stream) = Min(host.pc, Len(host.statements)) - 1

\* C17: cuda_depthSimMapOptimizeGradientDescent enqueues the copy of the SGM
\* map, the image-variance kernel, then per iteration one depth-snapshot kernel
\* and one adjust kernel with that iter; each adjust step reads the depths of
\* the previous iteration, and after optimizationNbIterations iterations (none
\* for 0: the output is the SGM map) the output is the last adjusted map.
C17_OptimizeStreamOrder ==
    (host.fn = "cuda_depthSimMapOptimizeGradientDescent" /\ noFailure) =>
        /\ stream = SubSeq(expectedStream(host.nbIterations), 1, Len(stream))
        /\ host.returned => Len(stream) = 2 + 2 * host.nbIterations
        /\ \A n \in 1 .. dev.executed :
              (n = dev.executed /\ stream[n].kernel = "optimize_depthSimMap_kernel") =>
                  /\ dev.tmp = adjusted(stream[n].iter)
                  /\ dev.out = adjusted(stream[n].iter + 1)
                  /\ dev.variance
        /\ (host.returned /\ dev.executed = Len(stream)) =>
              dev.out = adjusted(host.nbIterations)
        /\ (host.returned /\ dev.executed = Len(stream) /\ host.nbIterations = 0) =>
              dev.out = SgmMap

C17_Witness ==
    /\ host.fn = "cuda_depthSimMapOptimizeGradientDescent" /\ noFailure
    /\ host.returned /\ host.nbIterations = MaxIterations
    /\ dev.executed = Len(stream) /\ dev.executed = 2 + 2 * MaxIterations
    /\ dev.out.iters = [i \in 1 .. MaxIterations |-> i - 1]

----------------------------------------------------------------------------
(* Sgm::computeSimilarityVolumes: best and second-best similarity of one   *)
(* (pixel, depth hypothesis) over the neighbour cameras                    *)

MaxTc == 3
MaxSim == 2
\* the value of a volume where no neighbour has given a cost
NoSim == 255

Tcs == 1 .. MaxTc
Sims == 0 .. MaxSim

\* the running best / second best after the cost of one more neighbour
accumulateLastWins(best, secBest, sim) ==
    IF sim = NoSim THEN [best |-> best, secBest |-> secBest]
    ELSE [best |-> sim, secBest |-> best]
accumulate(best, secBest, sim) ==
    IF sim = NoSim THEN [best |-> best, secBest |-> secBest]
    ELSE IF sim < best THEN [best |-> sim, secBest |-> best]
    ELSE IF sim < secBest THEN [best |-> best, secBest |-> sim]
    ELSE [best |-> best, secBest |-> secBest]

InitVolume ==
    /\ \E costs \in [Tcs -> Sims \cup {NoSim}] :
          vol = [costs |-> costs, best |-> NoSim, secBest |-> NoSim, done |-> {}]
    /\ cfg = NoConfig
    /\ mergeIdle
    /\ fsIdle
    /\ kernelIdle
    /\ hostIdle
    /\ borderIdle
    /\ intrinsicIdle
    /\ splitIdle

\* the similarity volume of one more neighbour camera is computed and accumulated
ComputeTc(tc) ==
    /\ tc \in Tcs \ vol.done
    /\ \E r \in {accumulate(vol.best, vol.secBest, vol.costs[tc])} :
          vol' = [vol EXCEPT !.best = r.best, !.secBest = r.secBest, !.done = @ \cup {tc}]
    /\ UNCHANGED <<cfg, mergeVars, fsVars, kernelVars, hostVars, borderVars, intrinsicVars, splitVars>>

NextVolume == \E tc \in Tcs : ComputeTc(tc)

SpecVolume == InitVolume /\ [][NextVolume]_vars

\* the neighbours done that define a cost
defined == {tc \in vol.done : vol.costs[tc] # NoSim}
lowest(T) == CHOOSE tc \in T : \A other \in T : vol.costs[tc] <= vol.costs[other]

\* C16: where at least one neighbour done defines a cost, best <= second best
\* and best is the minimum of the costs of the neighbours done; the second best
\* is the lowest cost of the other neighbours: neither depends on the order
\* in which the neighbours were processed
C16_BestIsMinimum ==
    defined # {} =>
        /\ vol.best <= vol.secBest
        /\ \A tc \in defined : vol.best <= vol.costs[tc]
        /\ \E tc \in defined : vol.best = vol.costs[tc]
        /\ vol.secBest = IF defined \ {lowest(defined)} = {} THEN NoSim
                         ELSE vol.costs[lowest(defined \ {lowest(defined)})]

C16_Witness ==
    /\ vol.done = Tcs
    /\ vol.costs[1] = 1 /\ vol.costs[2] = NoSim /\ vol.costs[MaxTc] = 0
    /\ vol.best = 0 /\ vol.secBest = 1

----------------------------------------------------------------------------
(* weightTileBorder on one blend band                                      *)

MaxBand == 7
\* the smallest band whose width and height are above twice the margin
MinBand == 2 * margin + 1

\* the alphas (a, b, c, d) of the calls of addTileMapWeighted: corners with one
\* or two neighbouring tiles, and the four edges
Alphas == {<<0, 0, 1, 0>>, <<0, 1, 1, 0>>, <<0, 0, 1, 1>>, <<0, 1, 0, 0>>,
           <<1, 1, 0, 0>>, <<0, 0, 0, 1>>, <<1, 0, 0, 1>>, <<1, 0, 0, 0>>}
Corners == {<<0, 0>>, <<1, 2>>}
\* how far the band reaches beyond in_tileMap: endX < rd.x or endY < rd.y
Overhangs == {<<0, 0>>, <<1, 0>>, <<0, 1>>}

OneValue(x, y) == Val(1)
Bands ==
    {[border |-> Border(al[1], al[2], al[3], al[4], w, h, lu[1], lu[2]),
      in_tileMap |-> Image(lu[1] + w - over[1], lu[2] + h - over[2], OneValue),
      count |-> 0] :
        al \in Alphas, w \in MinBand .. MaxBand, h \in MinBand .. MaxBand,
        lu \in Corners, over \in Overhangs}

endX == Min(band.border.lux + band.border.borderWidth, band.in_tileMap.w)
endY == Min(band.border.luy + band.border.borderHeight, band.in_tileMap.h)

\* the k-th pixel of the two loops: x outer, y inner
loopPixel(k) ==
    <<band.border.lux + (k \div (endY - band.border.luy)),
      band.border.luy + (k % (endY - band.border.luy))>>

InitBorder ==
    /\ band \in Bands
    /\ cfg = NoConfig
    /\ mergeIdle
    /\ fsIdle
    /\ kernelIdle
    /\ hostIdle
    /\ sgmIdle
    /\ intrinsicIdle
    /\ splitIdle

\* one iteration of the inner loop: in_tileMap(y, x) *= weight
weightTileBorder ==
    /\ band # NoBand
    /\ band.count < (endX - band.border.lux) * (endY - band.border.luy)
    /\ \E q \in {loopPixel(band.count)} :
          band' = [band EXCEPT !.count = @ + 1,
                               !.in_tileMap.px[q] = RMul(@, borderWeight(band.border, q[1], q[2]))]
    /\ UNCHANGED <<cfg, mergeVars, fsVars, kernelVars, hostVars, sgmVars, intrinsicVars, splitVars>>

NextBorder == weightTileBorder

SpecBorder == InitBorder /\ [][NextBorder]_vars

\* the pixels the loops have weighted, and the weight each has got
weightedPixels == {loopPixel(k) : k \in 0 .. band.count - 1}
isWeighted(q) ==
    /\ band.border.lux <= q[1] /\ q[1] < endX
    /\ band.border.luy <= q[2] /\ q[2] < endY
    /\ (q[1] - band.border.lux) * (endY - band.border.luy) + (q[2] - band.border.luy) < band.count
weightOf(q) == band.in_tileMap.px[q]

\* the sides at which the band meets a neighbouring tile: both alphas of the side are 0
Sides == {"left", "right", "top", "bottom"}
faces(side) ==
    CASE side = "left" -> band.border.a = 0 /\ band.border.d = 0
      [] side = "right" -> band.border.b = 0 /\ band.border.c = 0
      [] side = "top" -> band.border.a = 0 /\ band.border.b = 0
      [] side = "bottom" -> band.border.c = 0 /\ band.border.d = 0
\* the extent of the band across the side, the distance of a pixel from the
\* outer edge of the side, and the next pixel towards the interior
extent(side) ==
    IF side \in {"left", "right"} THEN band.border.borderWidth ELSE band.border.borderHeight
dist(side, q) ==
    CASE side = "left" -> q[1] - band.border.lux
      [] side = "right" -> band.border.lux + band.border.borderWidth - 1 - q[1]
      [] side = "top" -> q[2] - band.border.luy
      [] side = "bottom" -> band.border.luy + band.border.borderHeight - 1 - q[2]
inward(side, q) ==
    CASE side = "left" -> <<q[1] + 1, q[2]>>
      [] side = "right" -> <<q[1] - 1, q[2]>>
      [] side = "top" -> <<q[1], q[2] + 1>>
      [] side = "bottom" -> <<q[1], q[2] - 1>>

inUnitRange(q) == RLeq(Val(0), weightOf(q)) /\ RLeq(weightOf(q), Val(1))
zeroAtOuterMargin(side, q) == dist(side, q) < margin => weightOf(q) = Val(0)
inInnerMargin(side, q) == dist(side, q) >= extent(side) - margin
monotone(side, q) ==
    isWeighted(inward(side, q)) => RLeq(weightOf(q), weightOf(inward(side, q)))
\* equal steps between the margins
linear(side, q) ==
    LET q1 == inward(side, q)
        q2 == inward(side, q1)
    IN  (/\ isWeighted(q1) /\ isWeighted(q2)
         /\ dist(side, q) >= margin /\ dist(side, q2) < extent(side) - margin)
        => RAdd(weightOf(q1), weightOf(q1)) = RAdd(weightOf(q), weightOf(q2))

\* C19 (as stated): in a band of width and height > 4 that faces a neighbouring
\* tile the weight ramps linearly and monotonically from 0 at the outer edge to
\* 1 towards the interior, is exactly 0 within the 2-pixel margin of the outer
\* edge, exactly 1 within the 2-pixel margin of the inner edge, and lies in [0, 1]
C19_LinearRamp ==
    band # NoBand =>
        \A q \in weightedPixels :
            /\ inUnitRange(q)
            /\ \A side \in {sd \in Sides : faces(sd)} :
                  /\ zeroAtOuterMargin(side, q)
                  /\ inInnerMargin(side, q) => weightOf(q) = Val(1)
                  /\ monotone(side, q)
                  /\ linear(side, q)

\* C19 (amended): across each side at which the band faces a neighbouring tile
\* the weight is exactly 0 within the 2-pixel margin of the outer edge, grows
\* monotonically and in equal steps between the margins, and lies in [0, 1];
\* it is exactly 1 for the pixels within the 2-pixel margin of the inner edge
\* of every side the band faces: in a corner band facing two neighbours the
\* ramp is bilinear, the product of the ramps of its two sides
C19_BilinearRamp ==
    band # NoBand =>
        \A q \in weightedPixels :
            /\ inUnitRange(q)
            /\ \A side \in {sd \in Sides : faces(sd)} :
                  /\ zeroAtOuterMargin(side, q)
                  /\ monotone(side, q)
                  /\ linear(side, q)
            /\ (\A side \in {sd \in Sides : faces(sd)} : inInnerMargin(side, q))
                  => weightOf(q) = Val(1)

\* a corner band facing two neighbours, wide enough for three steps of the ramp,
\* weighted to its end: 0 at both outer margins, 1 at the inner corner, and a
\* pixel strictly between
C19_Witness ==
    /\ band # NoBand
    /\ faces("left") /\ faces("top")
    /\ band.border.borderWidth = MaxBand /\ band.border.borderHeight = MaxBand
    /\ band.count = MaxBand * MaxBand
    /\ \E q \in weightedPixels :
          /\ dist("left", q) = margin /\ dist("top", q) = MaxBand - 1
          /\ weightOf(q) = Val(0)
          /\ RLess(weightOf(q), weightOf(inward("left", q)))
          /\ RLess(weightOf(inward("left", q)), weightOf(inward("left", inward("left", q))))
          /\ RLess(weightOf(inward("left", inward("left", q))), Val(1))
    /\ \E q \in weightedPixels :
          inInnerMargin("left", q) /\ inInnerMargin("top", q) /\ weightOf(q) = Val(1)

----------------------------------------------------------------------------
(* deleteDepthSimMapTiles and getNbDepthValuesFromDepthMap                 *)

\* the directory without the files of a set
without(files, paths) == [path \in DOMAIN files \ paths |-> files[path]]

\* deleteDepthSimMapTiles(rc, mp, scale, step), fs::remove throwing for the files
\* of failing: both tile lists are made first (getTilePathList throws without the
\* directory), then each file is removed, a failure being caught and logged
deleteDepthMapTilesOnly(failing) ==
    IF ~dirExists THEN [raised |-> TRUE, dir |-> dir, failed |-> {}]
    ELSE [raised |-> FALSE,
          dir |-> without(dir, tilePaths("depthMap") \ failing),
          failed |-> tilePaths("depthMap") \cap failing]
deleteDepthSimMapTiles(failing) ==
    IF ~dirExists THEN [raised |-> TRUE, dir |-> dir, failed |-> {}]
    ELSE [raised |-> FALSE,
          dir |-> without(dir, (tilePaths("depthMap") \cup tilePaths("simMap")) \ failing),
          failed |-> (tilePaths("depthMap") \cup tilePaths("simMap")) \cap failing]

\* metadata.get_int("AliceVision:nbDepthValues", -1)
nbDepthValuesIn(path) == getIntOr(dir[path].metadata, "AliceVision:nbDepthValues", -1)

RECURSIVE sumOfTiles(_, _)
\* nbDepthValues += nbTileDepthValues, over the tile files
sumOfTiles(paths, nbDepthValues) ==
    IF paths = {} THEN nbDepthValues
    ELSE LET path == CHOOSE q \in paths : TRUE
         IN  sumOfTiles(paths \ {path}, nbDepthValues + nbDepthValuesIn(path))

\* the count of the metadata: -1 where there is none; raised by a tile without it
nbDepthValuesFromMetadata ==
    IF exists(fullPath("depthMap"))
    THEN [raised |-> FALSE, nbDepthValues |-> nbDepthValuesIn(fullPath("depthMap"))]
    ELSE IF ~dirExists \/ \E path \in tilePaths("depthMap") : nbDepthValuesIn(path) < 0
    THEN [raised |-> TRUE, nbDepthValues |-> -1]
    ELSE [raised |-> FALSE, nbDepthValues |-> sumOfTiles(tilePaths("depthMap"), -1)]

\* getNbDepthValuesFromDepthMap(rc, mp, scale, step): without a count >= 0 in the
\* metadata the depth map is read and its values > 0 are counted
getNbDepthValuesFromDepthMap(list) ==
    LET m == nbDepthValuesFromMetadata
    IN  IF m.raised THEN [raised |-> TRUE, nbDepthValues |-> 0, calls |-> {}]
        ELSE IF m.nbDepthValues >= 0
        THEN [raised |-> FALSE, nbDepthValues |-> m.nbDepthValues, calls |-> {}]
        ELSE LET r == readMap("depthMap", list)
             IN  [raised |-> r.raised,
                  nbDepthValues |-> IF r.raised THEN 0 ELSE nbDepthValuesOf(r.map),
                  calls |-> r.calls \cup {<<"readDepthMap">>}]

TileScaleSteps == {<<1, 1>>, <<2, 1>>}
\* grids of tiles clipped to the image, and one tile written with its whole
\* buffer, beyond the image, next to tiles that lie outside the image
TileConfigs ==
    {GridConfig(layout, padding, span, 0, ss[1], ss[2], scene) :
        layout \in IOLayouts, padding \in 0 .. MaxIOPadding, span \in IOSpans,
        ss \in TileScaleSteps, scene \in IOScenes}
    \cup {[c EXCEPT !.tiles = unclippedTiles(c.tileParams, c.width, c.height)
                                \cup strayTiles(c.tileParams, c.width, c.height)] :
             c \in {GridConfig(<<1, 1>>, 0, span, 1, ss[1], ss[2], Ramp) :
                       span \in ClipSpans, ss \in TileScaleSteps}}

InitTiles ==
    /\ cfg \in TileConfigs
    /\ dirExists \in BOOLEAN
    /\ dir = NoFiles
    /\ last = NoCall
    /\ mergeIdle
    /\ kernelIdle
    /\ hostIdle
    /\ sgmIdle
    /\ borderIdle
    /\ intrinsicIdle
    /\ splitIdle

DeleteDepthSimMapTiles ==
    /\ \E failing \in {F \in SUBSET allTilePaths : Cardinality(F) <= MaxFaults} :
          \E r \in {deleteDepthSimMapTiles(failing)} :
             /\ dir' = r.dir
             /\ last' = [Call("deleteDepthSimMapTiles") EXCEPT
                            !.raised = r.raised, !.failed = r.failed, !.before = dir]
    /\ UNCHANGED <<cfg, dirExists, mergeVars, kernelVars, hostVars, sgmVars, borderVars, intrinsicVars, splitVars>>

GetNbDepthValuesFromDepthMap ==
    /\ \E list \in Orders(tilePaths("depthMap")) :
          \E r \in {getNbDepthValuesFromDepthMap(list)} :
             last' = [Call("getNbDepthValuesFromDepthMap") EXCEPT
                         !.raised = r.raised, !.nbDepthValues = r.nbDepthValues,
                         !.calls = r.calls]
    /\ UNCHANGED <<cfg, dirExists, dir, mergeVars, kernelVars, hostVars, sgmVars, borderVars, intrinsicVars, splitVars>>

NextTiles ==
    \/ \E roi \in tileRoiList : WriteTile(roi)
    \/ WriteFull
    \/ DeleteDepthSimMapTiles
    \/ GetNbDepthValuesFromDepthMap
    \/ ReadDepthMap

SpecTiles == InitTiles /\ [][NextTiles]_vars

\* the tile files and the full-size files of a directory
tilesOf(files) == {path \in DOMAIN files : path.tileBeginX >= 0 /\ path.tileBeginY >= 0}
fullsOf(files) == DOMAIN files \ tilesOf(files)

\* C21: deleteDepthSimMapTiles removes every tile file of the depth map and of
\* the similarity map whose removal does not fail, whatever removals fail,
\* and leaves the full-size files as they were; readDepthMap then returns
\* the full-size map
C21_TilesDeletedFullKept ==
    (last.op = "deleteDepthSimMapTiles" /\ ~last.raised)
        => /\ tilesOf(dir) = last.failed
           /\ last.failed \subseteq tilesOf(last.before)
           /\ fullsOf(dir) = fullsOf(last.before)
           /\ \A path \in DOMAIN dir : dir[path] = last.before[path]
           /\ exists(fullPath("depthMap"))
                 => \A list \in Orders(tilePaths("depthMap")) :
                       /\ ~readMap("depthMap", list).raised
                       /\ readMap("depthMap", list).map = last.before[fullPath("depthMap")].image

C21_Witness ==
    /\ last.op = "deleteDepthSimMapTiles" /\ ~last.raised
    /\ Cardinality(tilesOf(last.before)) = 4
    /\ Cardinality(last.failed) = 1 /\ Cardinality(tilesOf(dir)) = 1
    /\ fullsOf(dir) = {fullPath("depthMap"), fullPath("simMap")}

\* C24: for a camera with tile files and no full-size depth map, every tile
\* carrying a count >= 0, getNbDepthValuesFromDepthMap returns the sum of the
\* counts of the tiles, and does not read the depth map
C24_SumOfTileCounts ==
    (/\ last.op = "getNbDepthValuesFromDepthMap"
     /\ ~exists(fullPath("depthMap"))
     /\ tilePaths("depthMap") # {}
     /\ \A path \in tilePaths("depthMap") : nbDepthValuesIn(path) >= 0)
        => /\ ~last.raised
           /\ last.nbDepthValues = sumOfTiles(tilePaths("depthMap"), 0)
           /\ last.calls = {}

\* the path readMapFromTiles reads a listed tile file from: that of the begin of
\* the ROI of its metadata, clipped to the image
recomputedPath(path) ==
    LET roi == intersect(tileRoiOf(path), imageRoi)
    IN  Path(path.fileType, roi.xb, roi.yb)

\* C22: writeDepthSimMap writes to the files suffixed with (roi.x.begin,
\* roi.y.begin) if and only if the width or the height of the downscaled ROI
\* differs from that of the downscaled image, and to the un-suffixed files
\* otherwise; and the path readMapFromTiles recomputes for a tile file so
\* written, the ROI only clipped at its end, is the path of that file
C22_TilePathRoundTrip ==
    (last.op = "writeDepthSimMap" /\ ~last.raised)
        => \E d \in {downscaleROI(last.roi, scaleStep)} :
              /\ last.paths # {}
              /\ IF d.xe - d.xb # divideRoundUp(cfg.width, scaleStep)
                    \/ d.ye - d.yb # divideRoundUp(cfg.height, scaleStep)
                 THEN /\ last.paths = {Path(fileType, last.roi.xb, last.roi.yb) :
                                          fileType \in FileTypes}
                      /\ last.paths \subseteq allTilePaths
                      /\ \A path \in last.paths : recomputedPath(path) = path
                 ELSE last.paths = {fullPath(fileType) : fileType \in FileTypes}

\* a tile written with its whole buffer, reaching beyond the image at a scale
\* step of 2: its ROI is clipped before the path is recomputed
C22_Witness ==
    /\ last.op = "writeDepthSimMap" /\ ~last.raised
    /\ scaleStep > 1
    /\ last.roi.xe > cfg.width
    /\ last.paths \subseteq allTilePaths
    /\ \A path \in last.paths :
          /\ intersect(tileRoiOf(path), imageRoi) # tileRoiOf(path)
          /\ recomputedPath(path) = path

----------------------------------------------------------------------------
(* getViewIntrinsic: the choice of the intrinsic type                      *)

\* LensParam* lensParam: a null pointer, an empty profile, a perspective or a fisheye profile
LensParams == {"null", "empty", "perspective", "fisheye"}
CameraBrands == {"Custom", "GoPro", "Canon"}
IntrinsicTypes == {"UNKNOWN", "PINHOLE_CAMERA", "EQUIDISTANT_CAMERA"}
DistortionTypes == {"DISTORTION_NONE", "DISTORTION_RADIALK3", "DISTORTION_FISHEYE"}

\* what a member call through the pointer gives: the call through a null pointer
\* is undefined, it may crash or return either value
isEmpty(lensParam) ==
    IF lensParam = "null" THEN {"crash", "true", "false"}
    ELSE IF lensParam = "empty" THEN {"true"} ELSE {"false"}
isFisheye(lensParam) ==
    IF lensParam = "null" THEN {"crash", "true", "false"}
    ELSE IF lensParam = "fisheye" THEN {"true"} ELSE {"false"}

\* the arguments and the metadata of the view that the choice depends on
Views ==
    [lensParam : LensParams, cameraBrand : CameraBrands,
     cameraModel : IntrinsicTypes \ {"UNKNOWN"},
     hasFisheyeCompatibleParameters : BOOLEAN,
     defaultIntrinsicType : {"UNKNOWN", "EQUIDISTANT_CAMERA"},
     defaultDistortionType : {"DISTORTION_NONE", "DISTORTION_RADIALK3"}]

InitIntrinsic ==
    /\ \E view \in Views :
          call = [pc |-> "lcp", view |-> view,
                  intrinsicType |-> view.defaultIntrinsicType,
                  distortionType |-> view.defaultDistortionType,
                  lcpIntrinsicType |-> "UNKNOWN", lcpDistortionType |-> "DISTORTION_NONE",
                  dereferenced |-> {}]
    /\ cfg = NoConfig
    /\ mergeIdle
    /\ fsIdle
    /\ kernelIdle
    /\ hostIdle
    /\ sgmIdle
    /\ borderIdle
    /\ splitIdle

\* lines 206-220: if (!(lensParam != nullptr || lensParam->isEmpty())) { ... }
\* the right operand of || is evaluated only when lensParam is null
LensProfile ==
    /\ call.pc = "lcp"
    /\ IF call.view.lensParam # "null"
       THEN call' = [call EXCEPT !.pc = "choose"]
       ELSE \E empty \in isEmpty(call.view.lensParam) :
               IF empty = "crash"
               THEN call' = [call EXCEPT !.pc = "crashed", !.dereferenced = @ \cup {"isEmpty"}]
               ELSE IF empty = "true"
               THEN call' = [call EXCEPT !.pc = "choose", !.dereferenced = @ \cup {"isEmpty"}]
               ELSE \E fisheye \in isFisheye(call.view.lensParam) :
                       IF fisheye = "crash"
                       THEN call' = [call EXCEPT !.pc = "crashed",
                                                 !.dereferenced = @ \cup {"isEmpty", "isFisheye"}]
                       ELSE call' = [call EXCEPT
                                        !.pc = "choose",
                                        !.dereferenced = @ \cup {"isEmpty", "isFisheye"},
                                        !.lcpIntrinsicType = "PINHOLE_CAMERA",
                                        !.lcpDistortionType =
                                            IF fisheye = "true" THEN "DISTORTION_FISHEYE"
                                            ELSE "DISTORTION_RADIALK3"]
    /\ UNCHANGED <<cfg, mergeVars, fsVars, kernelVars, hostVars, sgmVars, borderVars, splitVars>>

\* lines 222-240: the if / else if chain
ChooseIntrinsicType ==
    /\ call.pc = "choose"
    /\ call' =
          IF call.view.cameraBrand = "Custom"
          THEN [call EXCEPT !.pc = "done", !.intrinsicType = call.view.cameraModel]
          ELSE IF call.lcpIntrinsicType # "UNKNOWN"
          THEN [call EXCEPT !.pc = "done", !.intrinsicType = call.lcpIntrinsicType]
          ELSE IF call.view.hasFisheyeCompatibleParameters
          THEN [call EXCEPT !.pc = "done", !.intrinsicType = "PINHOLE_CAMERA",
                            !.distortionType = "DISTORTION_FISHEYE"]
          ELSE IF call.intrinsicType = "UNKNOWN"
          THEN [call EXCEPT !.pc = "done", !.intrinsicType = "PINHOLE_CAMERA",
                            !.distortionType = "DISTORTION_RADIALK3"]
          ELSE [call EXCEPT !.pc = "done"]
    /\ UNCHANGED <<cfg, mergeVars, fsVars, kernelVars, hostVars, sgmVars, borderVars, splitVars>>

NextIntrinsic == LensProfile \/ ChooseIntrinsicType

SpecIntrinsic == InitIntrinsic /\ [][NextIntrinsic]_vars

\* C23: with a lens profile (lensParam neither null nor empty) and a camera
\* brand other than "Custom", the intrinsic type is that of the lens profile:
\* PINHOLE_CAMERA, the distortion fisheye or radial-K3 according to
\* isFisheye(); with lensParam null the branch is skipped and the pointer is
\* not dereferenced
C23_LensProfileUsed ==
    /\ call.pc # "crashed"
    /\ call.pc \in {"choose", "done"} =>
          /\ call.view.lensParam = "null" =>
                call.dereferenced = {} /\ call.lcpIntrinsicType = "UNKNOWN"
          /\ call.view.lensParam \in {"perspective", "fisheye"} =>
                /\ call.lcpIntrinsicType = "PINHOLE_CAMERA"
                /\ call.lcpDistortionType = IF call.view.lensParam = "fisheye"
                                            THEN "DISTORTION_FISHEYE"
                                            ELSE "DISTORTION_RADIALK3"
    /\ (/\ call.pc = "done"
        /\ call.view.lensParam \in {"perspective", "fisheye"}
        /\ call.view.cameraBrand # "Custom")
          => call.intrinsicType = "PINHOLE_CAMERA"

----------------------------------------------------------------------------
(* Claims on the border calls of addTileMapWeighted                        *)

\* the loops of the call visit at least one pixel of a tile image of w x h
visitsPixel(b, w, h) ==
    /\ b.lux < Min(b.lux + b.borderWidth, w)
    /\ b.luy < Min(b.luy + b.borderHeight, h)

\* C25: for a tile whose padding is at least 0 and less than half of each tile
\* dimension, every weightTileBorder call of addTileMapWeighted that weights a
\* pixel has strictly positive interpolation spans, borderWidth - 4 > 0 and
\* borderHeight - 4 > 0: no weight is a division by zero or by a negative span
C25_PositiveSpans ==
    \A roi \in added :
        LET g == tileGeometry(cfg.width, cfg.height, cfg.tileParams, roi, scaleStep)
            calls == tileBorderCalls(g)
        IN  (0 <= g.tilePadding /\ 2 * g.tilePadding < Min(g.tileWidth, g.tileHeight)) =>
                \A i \in 1 .. Len(calls) :
                    visitsPixel(calls[i], g.tileWidth, g.tileHeight) =>
                        /\ calls[i].borderWidth - 2 * margin > 0
                        /\ calls[i].borderHeight - 2 * margin > 0

\* the weightTileBorder calls of the tile whose loops visit pixel (x, y)
covering(g, x, y) ==
    {i \in 1 .. Len(tileBorderCalls(g)) :
        inBorder(tileBorderCalls(g)[i], g.tileWidth, g.tileHeight, x, y)}

\* C27: in one call of addTileMapWeighted with 2 * tilePadding <= min(tileWidth,
\* tileHeight) the regions of the weightTileBorder calls are pairwise disjoint:
\* every tile pixel is weighted by at most one call, and a pixel outside the
\* padding band by none
C27_BandsDisjoint ==
    \A roi \in added :
        LET g == tileGeometry(cfg.width, cfg.height, cfg.tileParams, roi, scaleStep)
        IN  2 * g.tilePadding <= Min(g.tileWidth, g.tileHeight) =>
                \A x \in 0 .. g.tileWidth - 1, y \in 0 .. g.tileHeight - 1 :
                    /\ Cardinality(covering(g, x, y)) <= 1
                    /\ (x \in midColumns(g) /\ y \in midRows(g)) => covering(g, x, y) = {}

C27_Witness ==
    \E roi \in added :
        LET g == tileGeometry(cfg.width, cfg.height, cfg.tileParams, roi, scaleStep)
        IN  /\ g.tilePadding > 0
            /\ 2 * g.tilePadding <= Min(g.tileWidth, g.tileHeight)
            /\ Len(tileBorderCalls(g)) >= 6
            /\ \A i \in 1 .. Len(tileBorderCalls(g)) :
                  \E x \in 0 .. g.tileWidth - 1, y \in 0 .. g.tileHeight - 1 :
                      covering(g, x, y) = {i}
            /\ \E x \in midColumns(g), y \in midRows(g) : covering(g, x, y) = {}

\* tile b is the right or the lower neighbour of tile a, overlapping it by the padding
beside(a, b) ==
    a.yb = b.yb /\ a.ye = b.ye /\ a.xb < b.xb /\ a.xe - b.xb = cfg.tileParams.padding
below(a, b) ==
    a.xb = b.xb /\ a.xe = b.xe /\ a.yb < b.yb /\ a.ye - b.yb = cfg.tileParams.padding

\* the pixel of the downscaled image is inside the downscaled ROI of the tile
inDownscaled(roi, x, y) ==
    LET d == downscaleROI(roi, scaleStep)
    IN  d.xb <= x /\ x < d.xe /\ d.yb <= y /\ y < d.ye

\* the weight the tile gives to pixel (x, y) of the downscaled image
weightAt(roi, x, y) ==
    LET g == tileGeometry(cfg.width, cfg.height, cfg.tileParams, roi, scaleStep)
    IN  tileWeight(g, x - g.downscaledRoi.xb, y - g.downscaledRoi.yb)

\* C28: with a scale step s > 1, for two neighbouring tiles that overlap by
\* the padding p at full resolution, the band width used for the weights,
\* p / s, is the overlap of their downscaled ROIs, and the weights of the two
\* tiles sum to 1 at every downscaled pixel of the overlap (that no third
\* tile covers)
C28_DownscaledOverlap ==
    \A a \in added, b \in added :
        (scaleStep > 1 /\ cfg.tileParams.padding > 0 /\ (beside(a, b) \/ below(a, b))) =>
            LET da == downscaleROI(a, scaleStep)
                db == downscaleROI(b, scaleStep)
                overlap == IF beside(a, b) THEN da.xe - db.xb ELSE da.ye - db.yb
            IN  /\ cfg.tileParams.padding \div scaleStep = overlap
                /\ \A p \in DOMAIN acc.px :
                      (/\ inDownscaled(a, p[1], p[2])
                       /\ inDownscaled(b, p[1], p[2])
                       /\ \A c \in tileRoiList \ {a, b} : ~inDownscaled(c, p[1], p[2]))
                          => RAdd(weightAt(a, p[1], p[2]), weightAt(b, p[1], p[2])) = Val(1)

----------------------------------------------------------------------------
(* Pixel accesses of addTileMapWeighted, with tile files of an earlier run *)

\* in_tileMap(y, x) of one weightTileBorder call: x from lu.x to endX, y from lu.y to endY
borderAccesses(b, in_tileMap) ==
    {<<x, y>> : x \in b.lux .. Min(b.lux + b.borderWidth, in_tileMap.w) - 1,
                y \in b.luy .. Min(b.luy + b.borderHeight, in_tileMap.h) - 1}

\* in_tileMap(ty, tx) and inout_map(y, x) of the accumulation loop
accumulationAccesses(g) ==
    [tile |-> {<<x - g.downscaledRoi.xb, y - g.downscaledRoi.yb>> :
                  x \in g.downscaledRoi.xb .. g.downscaledRoi.xe - 1,
                  y \in g.downscaledRoi.yb .. g.downscaledRoi.ye - 1},
     map |-> {<<x, y>> : x \in g.downscaledRoi.xb .. g.downscaledRoi.xe - 1,
                         y \in g.downscaledRoi.yb .. g.downscaledRoi.ye - 1}]

insideImage(p, image) == 0 <= p[1] /\ p[1] < image.w /\ 0 <= p[2] /\ p[2] < image.h

\* the indices addTileMapWeighted uses outside the tile image or the output map
strayAccesses(roi) ==
    LET g == tileGeometry(cfg.width, cfg.height, cfg.tileParams,
                          intersect(roi, imageRoi), scaleStep)
        calls == tileBorderCalls(g)
        in_tileMap == tileMapOf(roi)
    IN  {p \in UNION {borderAccesses(calls[i], in_tileMap) : i \in 1 .. Len(calls)}
                    \cup accumulationAccesses(g).tile : ~insideImage(p, in_tileMap)}
            \cup {p \in accumulationAccesses(g).map : ~insideImage(p, acc)}

\* The tile files of an earlier run with tiles of 1 x 1 and no padding, still
\* in the folder: getTilePathList matches them, and tileParams is read from
\* the first file of the list only.
staleTiles(width, height) ==
    {ROI(width - 1, width, 0, 1), ROI(0, 1, height - 1, height)}

StaleConfigs ==
    {[c EXCEPT !.tiles = unclippedTiles(c.tileParams, c.width, c.height)
                            \cup staleTiles(c.width, c.height)] :
        c \in {GridConfig(layout, padding, span, clip, scale, 1, Ramp) :
                  layout \in ClipLayouts, padding \in 0 .. 2, span \in ClipSpans,
                  clip \in Clips, scale \in 1 .. MaxScaleStep}}

InitStale ==
    /\ cfg \in StaleConfigs
    /\ acc = ZeroImage(imageWidth, imageHeight)
    /\ added = {}
    /\ steps = {}
    /\ fsIdle
    /\ kernelIdle
    /\ hostIdle
    /\ sgmIdle
    /\ borderIdle
    /\ intrinsicIdle
    /\ splitIdle

\* An index outside the tile image is undefined behaviour: the build with
\* Eigen's assertions aborts at the access, the build without them reads and
\* writes outside the row and goes on.
AddTileOutOfBounds(roi) ==
    /\ roi \in tileRoiList \ added
    /\ strayAccesses(roi) # {}
    /\ \E outcome \in {"aborted", "continued"} :
          /\ acc' = IF outcome = "aborted" THEN acc
                    ELSE mergeTile(cfg.tileParams, roi, Read(tileMapOf(roi)), acc)
          /\ steps' = steps \cup
                {[tile |-> roi, roi |-> intersect(roi, imageRoi), read |-> TRUE,
                  added |-> (outcome = "continued")]}
    /\ added' = added \cup {roi}
    /\ UNCHANGED <<cfg, fsVars, kernelVars, hostVars, sgmVars, borderVars, intrinsicVars, splitVars>>

AddTileInBounds(roi) == strayAccesses(roi) = {} /\ AddTile(roi)

NextStale ==
    \/ \E roi \in tileRoiList : AddTileInBounds(roi)
    \/ \E roi \in tileRoiList : AddTileOutOfBounds(roi)

SpecStale == InitStale /\ [][NextStale]_vars

\* C26: for every tile the merge accepts (padding >= 0, ROI not empty after
\* the intersection with the image) every index used by weightTileBorder and
\* by the accumulation loop is inside the tile image and inside the output
\* map, and the band origins tileWidth - tilePadding and tileHeight -
\* tilePadding are not negative
C26_AccessesInBounds ==
    \A st \in steps :
        st.read =>
            LET g == tileGeometry(cfg.width, cfg.height, cfg.tileParams, st.roi, scaleStep)
            IN  /\ g.tileWidth - g.tilePadding >= 0
                /\ g.tileHeight - g.tilePadding >= 0
                /\ strayAccesses(st.tile) = {}

----------------------------------------------------------------------------
(* splitDualFisheye                                                        *)

MaxSide == 8

SplitPresets == {"top", "center", "bottom"}

\* the side of the square crops and the rows left over
outSide(width, height) == Min(height, width \div 2)
offset(width, height) == Abs((width \div 2) - height)
halfOffset(width, height) == offset(width, height) \div 2

\* imageSource.block(startRow, startCol, blockRows, blockCols)
block(startRow, startCol, blockRows, blockCols) ==
    [ybegin |-> startRow, xbegin |-> startCol, rows |-> blockRows, cols |-> blockCols]

\* the block lies inside the source image
insideSource(b) ==
    /\ 0 <= b.xbegin /\ b.xbegin + b.cols <= split.width
    /\ 0 <= b.ybegin /\ b.ybegin + b.rows <= split.height

\* the source image is read from disk
InitSplit ==
    /\ split \in [pc : {"check"}, width : 1 .. MaxSide, height : 1 .. MaxSide,
                   splitPreset : SplitPresets, i : {0}, crops : {<<>>}]
    /\ cfg = NoConfig
    /\ mergeIdle
    /\ fsIdle
    /\ kernelIdle
    /\ hostIdle
    /\ sgmIdle
    /\ borderIdle
    /\ intrinsicIdle

\* lines 102-105: a vertical image is refused
CheckHorizontal ==
    /\ split.pc = "check"
    /\ split' = [split EXCEPT !.pc = IF split.height > split.width THEN "thrown" ELSE "loop"]
    /\ UNCHANGED <<cfg, mergeVars, fsVars, kernelVars, hostVars, sgmVars, borderVars, intrinsicVars>>

\* lines 116-146: one iteration of the loop over the two halves. A block that
\* leaves the source image is undefined behaviour: the build with Eigen's
\* assertions aborts, the build without them copies what lies there and goes on.
Crop ==
    /\ split.pc = "loop"
    /\ LET xbegin == split.i * outSide(split.width, split.height)
           ybegin == IF split.splitPreset = "bottom" THEN offset(split.width, split.height)
                     ELSE IF split.splitPreset = "center"
                     THEN halfOffset(split.width, split.height)
                     ELSE 0
           imageOut == block(ybegin, xbegin, outSide(split.width, split.height),
                             outSide(split.width, split.height))
       IN  \E outcome \in IF insideSource(imageOut) THEN {"continued"}
                           ELSE {"aborted", "continued"} :
               split' = [split EXCEPT
                            !.crops = Append(@, imageOut),
                            !.i = @ + 1,
                            !.pc = IF outcome = "aborted" THEN "aborted"
                                   ELSE IF split.i + 1 < 2 THEN "loop" ELSE "done"]
    /\ UNCHANGED <<cfg, mergeVars, fsVars, kernelVars, hostVars, sgmVars, borderVars, intrinsicVars>>

NextSplit == CheckHorizontal \/ Crop

SpecSplit == InitSplit /\ [][NextSplit]_vars

\* C30: for a horizontal source image (height <= width), each split preset
\* and both halves, the cropped square lies inside the source image, and the
\* two crops are the left and the right half: the first starts at column 0,
\* the second at column width / 2
C30_CropsInsideHalves ==
    /\ split.pc # "aborted"
    /\ \A k \in 1 .. Len(split.crops) :
          /\ insideSource(split.crops[k])
          /\ split.crops[k].rows = split.crops[k].cols
          /\ split.crops[k].xbegin = (k - 1) * (split.width \div 2)

====
